---------------------------- MODULE Spec2Model ----------------------------
(***************************************************************************)
(* Simulation core of PixelSamurai (components/Game.tsx, App.tsx,          *)
(* constants.ts, types.ts): the per-frame update() handler, the key        *)
(* handlers, the spawner and the host (App) that owns the game mode.       *)
(*                                                                         *)
(* Numbers.  The code computes in floating point; the model computes the   *)
(* same quantities exactly, in fixed point:                                *)
(*   style score          in 1/12 point   (SS)                             *)
(*   health               in 1/480 point  (HS)                             *)
(*   state timers, windup in 1/10 tick    (TS)  (dt is 1 or 0.1)           *)
(*   clash progress       in 1/10 point   (PS)                             *)
(*   slow-mo energy       in 1/200 point  (ES)                             *)
(*                                                                         *)
(* Geometry.  Positions and velocities are not state of the model: the     *)
(* distances the code computes from them each tick (player/enemy,          *)
(* player/bullet, bullet/enemy, the player's height over the ground) are   *)
(* inputs of the tick drawn from small sets of representative values, and  *)
(* every comparison the code makes on them is kept.  Wall-clock time       *)
(* (Date.now) is likewise an input: what the code asks of it (4 s since    *)
(* the last attack, 450 ms of holding the attack key, the 60 ms phase of   *)
(* the spin damage) is chosen by the environment, monotonically.           *)
(*                                                                         *)
(* Scenarios.  Each specification starts from a state of a running session *)
(* (a clash about to begin, a clash about to time out, the meter after a   *)
(* clash, a gunner about to fire, a point of the spawn cycle) and lets the *)
(* environment act within the scenario's record of inputs for MaxTicks...  *)
(* ticks of update() that hit-stop does not freeze.                        *)
(***************************************************************************)
EXTENDS Integers, Sequences, FiniteSets, TLC

\* ------------------------------------------------------------ fixed point
SS == 12
HS == 480
TS == 10
PS == 10
ES == 200

Min(a, b) == IF a <= b THEN a ELSE b
Max(a, b) == IF a >= b THEN a ELSE b

\* ------------------------------------------------------- program constants
\* SLOW_MO_FACTOR = 0.1 of a tick; CLASH_DRAIN_RATE = 0.1 point
SLOW_MO_FACTOR_TENTHS == TS \div 10
CLASH_DRAIN_RATE == PS \div 10
CLASH_GAIN_PER_TAP == 25 * PS
CLASH_WIN_THRESHOLD == 100 * PS
CLASH_START_PROGRESS == 40 * PS
CLASH_START_TIMER == 300
ATTACK_DURATION == 30
STYLE_CAP == 45000
ENEMY_CAP == 6
CYCLE_LENGTH == 15
PLAYER_MAX_HEALTH == 100
MAX_ENERGY == 300

\* STYLE_RANKS[i].threshold, i = 0 (D) .. 8 (GOD)
STYLE_RANKS == <<0, 1000, 2500, 5000, 8500, 13000, 19000, 27000, 38000>>
TOP_RANK == 8

\* ticks a stale loop closure may run before the host renders a requested mode
MaxStaleTicks == 2
Threshold(i) == STYLE_RANKS[i + 1] * SS

\* a lookup that compares the wrong way round: the last i with p <= threshold
RankIndexReversed(pts) ==
    LET S == {i \in 0..TOP_RANK : pts <= Threshold(i)}
    IN  IF S = {} THEN 0 ELSE CHOOSE i \in S : \A j \in S : j <= i

\* getStyleData().index: the last i whose threshold is <= p (0 when none is)
RankIndex(pts) ==
    LET S == {i \in 0..TOP_RANK : pts >= Threshold(i)}
    IN  IF S = {} THEN 0 ELSE CHOOSE i \in S : \A j \in S : j <= i

\* (STYLE_RANKS[index + 1]?.threshold || 1000) - STYLE_RANKS[index].threshold
BandWidth(idx) ==
    (IF idx + 1 <= TOP_RANK THEN Threshold(idx + 1) ELSE 1000 * SS) - Threshold(idx)

\* no onStateChange() call is waiting for the host's next render
NoRequest == "none"

\* what has been seen of the damage penalty: whether the player has been hit
\* since it last ran, how often it ran, and the score it found and left
NoPenalty == [owed |-> FALSE, count |-> 0, from |-> 0, to |-> 0]

AttackStates == {"attack", "launcher", "dash_attack", "downward_strike",
                 "air_attack", "spin_attack"}

\* ------------------------------------------------------------------ state
VARIABLES
    gameState,       \* App's gameState, as captured by the running loop closure
    pending,         \* the mode last passed to onStateChange and not yet rendered
    staleTicks,      \* update() calls made since that request
    player,          \* playerRef.current
    prevHealth,      \* prevHealthRef
    enemies,         \* enemiesRef.current, in list order
    bullets,         \* bulletsRef.current, in list order
    decoy,           \* decoyRef.current is set (an after-image is out)
    stylePoints,     \* stylePointsRef
    lastSkillUsed,   \* lastSkillUsedRef
    attackStale,     \* Date.now() - lastAttackTimeRef > 4000
    keys,            \* the codes k with keysRef.current[k] true
    processedKeys,   \* the names n with processedKeysRef.current[n] true
    jHeldLong,       \* jDownTimeRef is set and more than 450 ms old
    hitStop,         \* hitStopRef
    clashProgress,   \* clashProgressRef
    clashTimer,      \* clashTimerRef
    clashTargetId,   \* clashTargetIdRef (0 is null)
    clashCooldown,   \* clashCooldownRef
    spawnTimer,      \* spawnTimerRef
    enemySpawnCountInCycle,
    bossIndicesInCycle,
    ticks,           \* update() calls so far that were not frozen by hit-stop
    obs              \* observations of the last steps, read by the properties only

vars == <<gameState, pending, staleTicks, player, prevHealth, enemies, bullets, decoy,
          stylePoints, lastSkillUsed, attackStale, keys, processedKeys, jHeldLong,
          hitStop, clashProgress, clashTimer, clashTargetId, clashCooldown,
          spawnTimer, enemySpawnCountInCycle, bossIndicesInCycle, ticks, obs>>

\* The refs update() works on, gathered so that the statements of one tick can
\* be applied one after the other as the code does.
World ==
    [p |-> player, prevHealth |-> prevHealth, enemies |-> enemies,
     bullets |-> bullets, decoy |-> decoy, style |-> stylePoints, lastSkill |-> lastSkillUsed,
     attackStale |-> attackStale, processed |-> processedKeys,
     hitStop |-> hitStop, clashProgress |-> clashProgress,
     clashTimer |-> clashTimer, clashTargetId |-> clashTargetId,
     clashCooldown |-> clashCooldown, spawnTimer |-> spawnTimer,
     spawnCount |-> enemySpawnCountInCycle, bossIdx |-> bossIndicesInCycle,
     pending |-> pending, obs |-> obs]

Commit(w) ==
    /\ player' = w.p
    /\ prevHealth' = w.prevHealth
    /\ enemies' = w.enemies
    /\ bullets' = w.bullets
    /\ decoy' = w.decoy
    /\ stylePoints' = w.style
    /\ lastSkillUsed' = w.lastSkill
    /\ attackStale' = w.attackStale
    /\ processedKeys' = w.processed
    /\ hitStop' = w.hitStop
    /\ clashProgress' = w.clashProgress
    /\ clashTimer' = w.clashTimer
    /\ clashTargetId' = w.clashTargetId
    /\ clashCooldown' = w.clashCooldown
    /\ spawnTimer' = w.spawnTimer
    /\ enemySpawnCountInCycle' = w.spawnCount
    /\ bossIndicesInCycle' = w.bossIdx
    /\ pending' = w.pending
    /\ obs' = w.obs

\* onStateChange(state): App's setGameState; the last call before a render wins
OnStateChange(w, state) == [w EXCEPT !.pending = state]

\* an addStyle that pays the novelty bonus to a repeated skill as well
addStyleAlwaysNovel(w, amount, skillName, inAir) ==
    LET floorAt   == Threshold(Min(RankIndex(w.style) + 1, TOP_RANK))
        afterParry == IF skillName = "parry" THEN Max(w.style, floorAt) ELSE w.style
        mult10    == 25 * (IF inAir THEN 2 ELSE 1)
                        * (IF w.p.isSlowMoActive THEN 2 ELSE 1)
        gain      == (amount * mult10 * SS) \div 100
    IN  [w EXCEPT !.style = Min(STYLE_CAP * SS, afterParry + gain),
                  !.attackStale = FALSE,
                  !.lastSkill = skillName]

\* ------------------------------------------------------------ style meter
\* addStyle(amount, skillName); inAir is p.pos.y < groundY - p.height - 5
addStyle(w, amount, skillName, inAir) ==
    LET floorAt   == Threshold(Min(RankIndex(w.style) + 1, TOP_RANK))
        afterParry == IF skillName = "parry" THEN Max(w.style, floorAt) ELSE w.style
        mult10    == (IF skillName = w.lastSkill THEN 10 ELSE 25)
                     * (IF inAir THEN 2 ELSE 1)
                     * (IF w.p.isSlowMoActive THEN 2 ELSE 1)
        gain      == (amount * mult10 * SS) \div 100
    IN  [w EXCEPT !.style = Min(STYLE_CAP * SS, afterParry + gain),
                  !.attackStale = FALSE,
                  !.lastSkill = skillName]

\* ------------------------------------------------------- update(): prologue
\* dt = p.isSlowMoActive ? SLOW_MO_FACTOR : 1.0, in tenths; read once, when the
\* tick starts
Dt(w) == IF w.p.isSlowMoActive THEN SLOW_MO_FACTOR_TENTHS ELSE TS

\* recoveryRate: 15 from rank S up, else 3 + 3 * index
RecoveryRate(idx) == IF idx >= 4 THEN 15 ELSE 3 + idx * 3

\* dmgMult, in halves: 2.0 from OMG up, 1.5 from S up, else 1.0
DmgMult2(idx) == IF idx >= 7 THEN 4 ELSE IF idx >= 4 THEN 3 ELSE 2

\* a decoy drains (9 / 60) * dt of the meter and is dropped when the meter is at
\* 0; with no decoy out slowMoEnergy = min(300, energy + (recoveryRate / 60) * dt)
RecoverEnergy(w, idx, dt) ==
    LET inc == (RecoveryRate(idx) * ES * dt) \div (60 * TS)
        left == Max(0, w.p.slowMoEnergy - (9 * ES * dt) \div (60 * TS))
    IN  IF w.decoy
        THEN [w EXCEPT !.p.slowMoEnergy = left, !.decoy = left > 0]
        ELSE [w EXCEPT !.p.slowMoEnergy = Min(MAX_ENERGY * ES, w.p.slowMoEnergy + inc)]

\* blood on the body heals 5% of maxHealth over 240 ticks; every drop ages by dt
\* and is dropped at life <= 0 (bloodLife is the life of the youngest drops)
BloodHeal(w, dt) ==
    IF w.p.bloodLife > 0
    THEN LET heal == (PLAYER_MAX_HEALTH * 5 * HS * dt) \div (100 * 240 * TS)
         IN  [w EXCEPT !.p.health = Min(PLAYER_MAX_HEALTH * HS, w.p.health + heal),
                       !.p.bloodLife = Max(0, w.p.bloodLife - dt)]
    ELSE w

\* a cooldown that runs at twice the pace
TickCooldownTwice(w) ==
    LET w1 == [w EXCEPT !.obs.cooled = Min(60, w.obs.cooled + 1),
                        !.obs.pressed = FALSE]
    IN  IF w.clashCooldown > 0
        THEN [w1 EXCEPT !.clashCooldown = Max(0, w.clashCooldown - 2)]
        ELSE w1

\* if (clashCooldownRef.current > 0) clashCooldownRef.current--; obs.cooled counts
\* the ticks since the last clash was resolved, up to 60, and obs.pressed tells
\* of a press of KeyJ made during the clash since the last tick
TickCooldown(w) ==
    LET w1 == [w EXCEPT !.obs.cooled = Min(60, w.obs.cooled + 1),
                        !.obs.pressed = FALSE]
    IN  IF w.clashCooldown > 0
        THEN [w1 EXCEPT !.clashCooldown = w.clashCooldown - 1]
        ELSE w1

\* ------------------------------------------------- update(): CLASHING branch
\* a new press of KeyJ gains CLASH_GAIN_PER_TAP; a released key re-arms the tap
ClashTap(w, ks) ==
    LET tapped == IF "KeyJ" \in ks /\ "KeyJ_Clash" \notin w.processed
                  THEN [w EXCEPT !.processed = w.processed \cup {"KeyJ_Clash"},
                                 !.clashProgress = w.clashProgress + CLASH_GAIN_PER_TAP,
                                 !.obs.taps = w.obs.taps + 1]
                  ELSE w
    IN  IF "KeyJ" \notin ks
        THEN [tapped EXCEPT !.processed = tapped.processed \ {"KeyJ_Clash"}]
        ELSE tapped

\* a resolver that clears the bosses as well
ClashKillAll(w) ==
    [w EXCEPT !.enemies =
        [i \in 1..Len(w.enemies) |-> [w.enemies[i] EXCEPT !.health = 0]]]

\* the clash target and every non-boss enemy get health 0
ClashKill(w) ==
    [w EXCEPT !.enemies =
        [i \in 1..Len(w.enemies) |->
            IF w.enemies[i].id = w.clashTargetId \/ w.enemies[i].type # "BOSS"
            THEN [w.enemies[i] EXCEPT !.health = 0]
            ELSE w.enemies[i]]]

ClashWin(w, inAir) ==
    LET w1 == ClashKill(OnStateChange(w, "PLAYING"))
        w2 == [w1 EXCEPT !.style = Threshold(Min(RankIndex(w1.style) + 2, TOP_RANK))]
        w3 == addStyle(w2, 4000, "clash_win", inAir)
    IN  [w3 EXCEPT !.p.isSlowMoActive = FALSE,
                   !.hitStop = 40,
                   !.clashCooldown = 45,
                   !.obs.resolutions = w.obs.resolutions + 1,
                   !.obs.cooled = 0, !.obs.wait = 45]

\* a loss that costs one tier
ClashLoseOneTier(w) ==
    LET w1 == OnStateChange(w, "PLAYING")
        w2 == [w1 EXCEPT !.p.health = 1 * HS,
                         !.p.state = "hurt",
                         !.p.stateTimer = 30 * TS,
                         !.p.isSlowMoActive = FALSE,
                         !.clashCooldown = 60]
    IN  [w2 EXCEPT !.style = Threshold(Max(RankIndex(w2.style) - 1, 0)),
                   !.obs.resolutions = w.obs.resolutions + 1,
                   !.obs.cooled = 0, !.obs.wait = 60]

ClashLose(w) ==
    LET w1 == OnStateChange(w, "PLAYING")
        w2 == [w1 EXCEPT !.p.health = 1 * HS,
                         !.p.state = "hurt",
                         !.p.stateTimer = 30 * TS,
                         !.p.isSlowMoActive = FALSE,
                         !.clashCooldown = 60]
    IN  [w2 EXCEPT !.style = Threshold(Max(RankIndex(w2.style) - 2, 0)),
                   !.obs.resolutions = w.obs.resolutions + 1,
                   !.obs.cooled = 0, !.obs.wait = 60]

\* a clash that is lost only when progress is gone, whatever the countdown
ClashTickNoTimeout(w, ks, inAir) ==
    LET w1 == [w EXCEPT !.p.isSlowMoActive = TRUE,
                        !.clashTimer = w.clashTimer - 1,
                        !.clashProgress = w.clashProgress - CLASH_DRAIN_RATE]
        w2 == ClashTap(w1, ks)
    IN  IF w2.clashProgress >= CLASH_WIN_THRESHOLD THEN ClashWin(w2, inAir)
        ELSE IF w2.clashProgress <= 0 THEN ClashLose(w2)
        ELSE w2

\* the win checked on the progress before the tap of this tick
ClashTickLateWin(w, ks, inAir) ==
    LET w1 == [w EXCEPT !.p.isSlowMoActive = TRUE,
                        !.clashTimer = w.clashTimer - 1,
                        !.clashProgress = w.clashProgress - CLASH_DRAIN_RATE]
        w2 == ClashTap(w1, ks)
    IN  IF w1.clashProgress >= CLASH_WIN_THRESHOLD THEN ClashWin(w2, inAir)
        ELSE IF w2.clashProgress <= 0 \/ w2.clashTimer <= 0 THEN ClashLose(w2)
        ELSE w2

\* a clash whose countdown stands still in a tick that takes a tap
ClashTickTapHoldsCountdown(w, ks, inAir) ==
    LET tap == "KeyJ" \in ks /\ "KeyJ_Clash" \notin w.processed
        w1 == [w EXCEPT !.p.isSlowMoActive = TRUE,
                        !.clashTimer = w.clashTimer - (IF tap THEN 0 ELSE 1),
                        !.clashProgress = w.clashProgress - CLASH_DRAIN_RATE]
        w2 == ClashTap(w1, ks)
    IN  IF w2.clashProgress >= CLASH_WIN_THRESHOLD THEN ClashWin(w2, inAir)
        ELSE IF w2.clashProgress <= 0 \/ w2.clashTimer <= 0 THEN ClashLose(w2)
        ELSE w2

ClashTick(w, ks, inAir) ==
    LET w1 == [w EXCEPT !.p.isSlowMoActive = TRUE,
                        !.clashTimer = w.clashTimer - 1,
                        !.clashProgress = w.clashProgress - CLASH_DRAIN_RATE]
        w2 == ClashTap(w1, ks)
    IN  IF w2.clashProgress >= CLASH_WIN_THRESHOLD THEN ClashWin(w2, inAir)
        ELSE IF w2.clashProgress <= 0 \/ w2.clashTimer <= 0 THEN ClashLose(w2)
        ELSE w2

\* ---------------------------------------------- update(): PLAYING, the meter
\* passive decay after 4 s without an attack, and the penalty for lost health
StyleDecay(w, idx, dt) ==
    IF w.attackStale
    THEN LET drop == (BandWidth(idx) * dt) \div (2 * 60 * TS)
         IN  [w EXCEPT !.style = Max(0, w.style - drop)]
    ELSE w

StylePenalty(w, idx) ==
    LET left == Max(0, w.style - (BandWidth(idx) * 7) \div 10)
        hit == IF w.p.health < w.prevHealth
               THEN [w EXCEPT !.style = left,
                              !.obs.penalty = [owed |-> FALSE,
                                               count |-> w.obs.penalty.count + 1,
                                               from |-> w.style, to |-> left]]
               ELSE w
    IN  [hit EXCEPT !.prevHealth = w.p.health]

\* --------------------------------------------- update(): PLAYING, the player
\* isOnGround: p.pos.y >= groundY - p.height - 2; alt is the player's height
\* over the ground, groundY - p.height - p.pos.y
IsOnGround(alt) == alt <= 2
\* addStyle's isInAir: p.pos.y < groundY - p.height - 5
IsInAir(alt) == alt > 5

\* if (isOnGround) p.airComboCount = 0; obs.grounded keeps what the tick saw
ResetAirCombo(w, onGround) ==
    [w EXCEPT !.p.airComboCount = IF onGround THEN 0 ELSE w.p.airComboCount,
              !.obs.grounded = onGround]

\* KeyK toggles focus (slow motion) once per press
FocusKey(w, ks) ==
    IF "KeyK" \in ks /\ "KeyK" \notin w.processed
    THEN LET on == ~w.p.isSlowMoActive /\ w.p.slowMoEnergy > 5 * ES
         IN  [w EXCEPT !.processed = w.processed \cup {"KeyK"},
                       !.p.isSlowMoActive = on]
    ELSE w

\* the attack key held for more than 450 ms with no vertical input starts the spin
SpinStart(w, ks, heldLong) ==
    IF /\ heldLong
       /\ "KeyW" \notin ks /\ "KeyS" \notin ks
       /\ w.p.state # "spin_attack" /\ w.p.state # "hurt"
       /\ w.p.slowMoEnergy > 0
       /\ w.p.state \notin {"launcher", "downward_strike", "dash_attack"}
    THEN [w EXCEPT !.p.state = "spin_attack"]
    ELSE w

\* spin_attack drains 1.5 energy per tick and ends on release or exhaustion
SpinTick(w, ks) ==
    LET e == Max(0, w.p.slowMoEnergy - (15 * ES) \div 10)
        w1 == [w EXCEPT !.p.slowMoEnergy = e]
    IN  IF e <= 0 \/ "KeyJ" \notin ks
        THEN [w1 EXCEPT !.p.state = "idle", !.p.stateTimer = 0]
        ELSE w1

\* no horizontal key is down: the player idles on the ground, else is in a jump;
\* KeyW on the ground starts a jump once per press
Locomotion(w, ks, onGround, isSpec) ==
    LET w1 == IF ~isSpec /\ w.p.state # "attack" /\ w.p.state # "dodge"
              THEN LET w0 == [w EXCEPT !.p.state = IF onGround THEN "idle" ELSE "jump"]
                   IN  IF "KeyW" \in ks /\ "JumpKey" \notin w0.processed /\ onGround
                       THEN [w0 EXCEPT !.p.state = "jump",
                                       !.processed = w0.processed \cup {"JumpKey"}]
                       ELSE w0
              ELSE w
    IN  IF "KeyW" \notin ks
        THEN [w1 EXCEPT !.processed = w1.processed \ {"JumpKey"}]
        ELSE w1

\* an attack input that goes on counting air attacks after the third
AttackInputUncapped(w, ks, onGround) ==
    IF "KeyW" \in ks
    THEN [w EXCEPT !.p.state = "launcher", !.p.stateTimer = 35 * TS]
    ELSE IF ~onGround
    THEN IF "KeyS" \in ks
         THEN [w EXCEPT !.p.state = "downward_strike", !.p.stateTimer = 40 * TS]
         ELSE [w EXCEPT !.p.state = "air_attack", !.p.stateTimer = 22 * TS,
                        !.p.airComboCount = w.p.airComboCount + 1]
    ELSE [w EXCEPT !.p.state = "attack", !.p.stateTimer = ATTACK_DURATION * TS]

\* a new press of KeyJ starts the move that the held keys and the ground select;
\* the dash (the last three presses KeyA KeyA KeyJ or KeyD KeyD KeyJ) needs keys
\* that no scenario presses
AttackInput(w, ks, onGround) ==
    IF "KeyW" \in ks
    THEN [w EXCEPT !.p.state = "launcher", !.p.stateTimer = 35 * TS]
    ELSE IF ~onGround
    THEN IF "KeyS" \in ks \/ w.p.airComboCount >= 3
         THEN [w EXCEPT !.p.state = "downward_strike", !.p.stateTimer = 40 * TS]
         ELSE [w EXCEPT !.p.state = "air_attack", !.p.stateTimer = 22 * TS,
                        !.p.airComboCount = w.p.airComboCount + 1]
    ELSE [w EXCEPT !.p.state = "attack", !.p.stateTimer = ATTACK_DURATION * TS]

\* a state timer that runs out and leaves the player in the state it timed
StateTimerTickKeepsState(w, onGround, dt) ==
    IF w.p.stateTimer > 0
    THEN [w EXCEPT !.p.stateTimer =
                      w.p.stateTimer - (IF w.p.state = "dash_attack" THEN TS ELSE dt)]
    ELSE w

\* the state timer runs down by dt (by 1.0 in dash_attack); at <= 0 the player
\* is idle on the ground, else in a jump
StateTimerTick(w, onGround, dt) ==
    IF w.p.stateTimer > 0
    THEN LET t == w.p.stateTimer - (IF w.p.state = "dash_attack" THEN TS ELSE dt)
         IN  [w EXCEPT !.p.stateTimer = t,
                       !.p.state = IF t <= 0
                                   THEN IF onGround THEN "idle" ELSE "jump"
                                   ELSE w.p.state]
    ELSE w

\* if (p.dodgeCooldown > 0) p.dodgeCooldown -= dt
DodgeCooldownTick(w, dt) ==
    IF w.p.dodgeCooldown > 0
    THEN [w EXCEPT !.p.dodgeCooldown = w.p.dodgeCooldown - dt]
    ELSE w

PlayerTick(w, ks, heldLong, onGround, dt) ==
    LET w1 == FocusKey(ResetAirCombo(w, onGround), ks)
        jPressed == "KeyJ" \in ks /\ "KeyJ" \notin w1.processed
        w2 == IF jPressed THEN [w1 EXCEPT !.processed = w1.processed \cup {"KeyJ"}] ELSE w1
        w3 == SpinStart(w2, ks, heldLong)
        isSpec == w3.p.state \in {"launcher", "dash_attack", "downward_strike",
                                  "air_attack", "spin_attack"}
        w4 == IF w3.p.state # "hurt" /\ w3.p.state # "clash"
              THEN LET w5 == IF w3.p.state = "spin_attack" THEN SpinTick(w3, ks)
                             ELSE Locomotion(w3, ks, onGround, isSpec)
                   IN  IF jPressed /\ w5.p.state # "dodge"
                       THEN AttackInput(w5, ks, onGround)
                       ELSE w5
              ELSE w3
    IN  DodgeCooldownTick(StateTimerTick(w4, onGround, dt), dt)

\* -------------------------------------------- update(): PLAYING, the enemies
IsBoss(e) == e.type = "BOSS"

\* the distance under which an idle enemy stops approaching and starts to attack
AggroRange(e) ==
    IF e.type = "ENEMY_DEFENDER" THEN 100
    ELSE IF e.type = "ENEMY_LANCER" THEN 240
    ELSE IF e.type = "ENEMY_STRIKER" THEN 120
    ELSE IF IsBoss(e) THEN 200
    ELSE IF e.type = "ENEMY_SWORD" THEN 95 ELSE 450

NewBullet == [owner |-> "enemy", isReflected |-> FALSE, hitList |-> <<>>, hits |-> <<>>]

\* spin_attack: every enemy in the spin radius takes 12 * dmgMult on the 60 ms phase
SpinDamage(w, e, d, c) ==
    IF /\ w.p.state = "spin_attack"
       /\ d.dx < (IF IsBoss(e) THEN 380 ELSE 280)
       /\ d.dy < (IF IsBoss(e) THEN 200 ELSE 150)
       /\ c.spinPhase
    THEN <<addStyle(w, 80, "spin", c.inAir),
           [e EXCEPT !.health = e.health - (12 * c.dmgMult2 * HS) \div 2,
                     !.state = "hurt", !.stateTimer = 10 * TS]>>
    ELSE <<w, e>>

\* an enemy that is not attacking, hurt or winding up runs at the player, or
\* stands in range and, its cooldown over, starts its windup
EnemyApproach(e, d) ==
    IF e.state # "attack" /\ e.state # "hurt" /\ e.state # "clash" /\ e.windup <= 0
    THEN LET faced == [e EXCEPT !.facing = IF d.side > 0 THEN 1 ELSE -1]
         IN  IF d.dx > AggroRange(e)
             THEN [faced EXCEPT !.state = "run"]
             ELSE [faced EXCEPT !.state = "idle",
                                !.attackCooldown = e.attackCooldown - 1,
                                !.windup = IF e.attackCooldown <= 0
                                           THEN (IF e.type = "ENEMY_GUN" THEN 70
                                                 ELSE IF IsBoss(e) THEN 50 ELSE 16) * TS
                                           ELSE e.windup]
    ELSE e

\* the windup runs down by dt; at <= 0 the attack starts and the gunner fires
EnemyWindup(w, e, dt) ==
    IF e.windup > 0
    THEN LET t == e.windup - dt
         IN  IF t <= 0
             THEN <<IF e.type = "ENEMY_GUN"
                    THEN [w EXCEPT !.bullets = Append(w.bullets, NewBullet)]
                    ELSE w,
                    [e EXCEPT !.windup = t, !.state = "attack",
                              !.stateTimer = (IF IsBoss(e) THEN 50 ELSE 40) * TS,
                              !.attackCooldown = IF IsBoss(e) THEN 160
                                                 ELSE IF e.type = "ENEMY_STRIKER" THEN 60
                                                 ELSE 140]>>
             ELSE <<w, [e EXCEPT !.windup = t]>>
    ELSE <<w, e>>

IsEAttacking(e) == e.state = "attack" /\ e.type # "ENEMY_GUN" /\ e.stateTimer > 12 * TS

ClashTrigger(w, e) ==
    [OnStateChange(w, "CLASHING") EXCEPT !.clashProgress = CLASH_START_PROGRESS,
                                         !.clashTargetId = e.id,
                                         !.hitStop = 8,
                                         !.obs.taps = 0,
                                         !.obs.offenceIn = w.obs.offenceIn \cup {w.p.state}]

\* the player's melee hit: 45 * dmgMult (5 * dmgMult on a defender struck from the
\* front by anything but a launcher or a slam), hurt, hit-stop and style
PlayerHit(w, e, c) ==
    LET launcher == w.p.state = "launcher"
        slam     == w.p.state = "downward_strike"
        base     == IF e.type = "ENEMY_DEFENDER" /\ ~launcher /\ ~slam
                       /\ e.facing # w.p.facing
                    THEN 5 ELSE 45
        w1       == [w EXCEPT !.hitStop = IF IsBoss(e) THEN 12 ELSE 10,
                              !.obs.offenceIn = w.obs.offenceIn \cup {w.p.state}]
    IN  <<addStyle(w1, IF launcher THEN 600 ELSE IF slam THEN 800 ELSE 250,
                   w.p.state, c.inAir),
          [e EXCEPT !.health = e.health - (base * c.dmgMult2 * HS) \div 2,
                    !.state = "hurt",
                    !.stateTimer = (IF launcher THEN 45 ELSE 20) * TS]>>

\* the enemy's melee hit on the player; obs counts the tick's hits on the
\* player and keeps the states they found the player in
EnemyHit(w, e) ==
    [w EXCEPT !.p.health = w.p.health
                  - (IF IsBoss(e) THEN 35
                     ELSE IF e.type = "ENEMY_DEFENDER" THEN 25 ELSE 12) * HS,
              !.p.state = "hurt",
              !.p.stateTimer = 18 * TS,
              !.obs.penalty.owed = TRUE,
              !.obs.hits = w.obs.hits + 1,
              !.obs.struckIn = w.obs.struckIn \cup {w.p.state}]

\* a resolution in which a blow lands on a hurt or dodging player as on any
ResolveStrikesHurt(w, e, d, c) ==
    IF /\ c.isPAttacking /\ IsEAttacking(e)
       /\ d.dx < (IF IsBoss(e) THEN 340 ELSE 240)
       /\ d.dy < (IF IsBoss(e) THEN 200 ELSE 120)
       /\ w.p.state # "spin_attack" /\ w.clashCooldown <= 0
    THEN <<ClashTrigger(w, e), e>>
    ELSE IF /\ c.isPAttacking
            /\ d.dx < (IF IsBoss(e) THEN 200 ELSE 150)
            /\ d.dy < (IF IsBoss(e) THEN 180 ELSE 120)
            /\ (e.state # "hurt" \/ e.stateTimer < 12 * TS)
            /\ w.p.state # "spin_attack"
    THEN PlayerHit(w, e, c)
    ELSE IF /\ IsEAttacking(e)
            /\ d.dx < (IF IsBoss(e) THEN 180
                       ELSE IF e.type = "ENEMY_LANCER" THEN 260 ELSE 100)
            /\ d.dy < (IF IsBoss(e) THEN 150 ELSE 100)
    THEN <<EnemyHit(w, e), e>>
    ELSE <<w, e>>

\* clash, else the player's hit, else the enemy's hit; obs.offenceIn keeps the
\* states in which the player struck, parried or met a blow in the tick
Resolve(w, e, d, c) ==
    IF /\ c.isPAttacking /\ IsEAttacking(e)
       /\ d.dx < (IF IsBoss(e) THEN 340 ELSE 240)
       /\ d.dy < (IF IsBoss(e) THEN 200 ELSE 120)
       /\ w.p.state # "spin_attack" /\ w.clashCooldown <= 0
    THEN <<ClashTrigger(w, e), e>>
    ELSE IF /\ c.isPAttacking
            /\ d.dx < (IF IsBoss(e) THEN 200 ELSE 150)
            /\ d.dy < (IF IsBoss(e) THEN 180 ELSE 120)
            /\ (e.state # "hurt" \/ e.stateTimer < 12 * TS)
            /\ w.p.state # "spin_attack"
    THEN PlayerHit(w, e, c)
    ELSE IF /\ IsEAttacking(e)
            /\ d.dx < (IF IsBoss(e) THEN 180
                       ELSE IF e.type = "ENEMY_LANCER" THEN 260 ELSE 100)
            /\ d.dy < (IF IsBoss(e) THEN 150 ELSE 100)
            /\ w.p.state # "hurt" /\ w.p.state # "dodge"
    THEN <<EnemyHit(w, e), e>>
    ELSE <<w, e>>

EnemyTimer(e, dt) ==
    IF e.stateTimer > 0
    THEN LET t == e.stateTimer - dt
         IN  [e EXCEPT !.stateTimer = t, !.state = IF t <= 0 THEN "idle" ELSE e.state]
    ELSE e

\* rankHeals[styleData.index], the heal for a kill in points of health
RankHeal(idx) == <<15, 17, 19, 21, 23, 25, 26, 28, 30>>[idx + 1]

\* healPercent = isBoss ? 25 : (rankHeals[styleData.index] || 15)
HealPercent(isBoss, idx) == IF isBoss THEN 25 ELSE RankHeal(idx)

\* an enemy at health <= 0: the player is healed and gains style and blood
EnemyDeath(w, e, c) ==
    LET heal == HealPercent(IsBoss(e), c.idx)
        w1 == [w EXCEPT !.p.health = Min(PLAYER_MAX_HEALTH * HS, w.p.health + heal * HS)]
        w2 == IF IsBoss(e)
              THEN addStyle([w1 EXCEPT !.style =
                                Max(w1.style,
                                    Threshold(Min(RankIndex(w1.style) + 1, TOP_RANK)))],
                            500, "boss_kill_bonus", c.inAir)
              ELSE addStyle(w1, 1500, "kill", c.inAir)
    IN  [w2 EXCEPT !.p.bloodLife = 240 * TS]

\* the body of enemiesRef.current.filter for one enemy: the world after it, and
\* whether the enemy is kept
EnemyStep(w, e, d, c) ==
    LET s1 == SpinDamage(w, e, d, c)
        s2 == EnemyWindup(s1[1], EnemyApproach(s1[2], d), c.dt)
        s3 == Resolve(s2[1], s2[2], d, c)
        e4 == EnemyTimer(s3[2], c.dt)
    IN  IF e4.health <= 0
        THEN [w |-> EnemyDeath(s3[1], e4, c), keep |-> <<>>]
        ELSE [w |-> s3[1], keep |-> <<e4>>]

\* the filter over the list, in order; w.enemies is replaced when it is done
RECURSIVE EnemyPass(_, _, _, _, _)
EnemyPass(w, i, kept, ds, c) ==
    IF i > Len(w.enemies) THEN [w EXCEPT !.enemies = kept]
    ELSE LET r == EnemyStep(w, w.enemies[i], ds[i], c)
         IN  EnemyPass(r.w, i + 1, kept \o r.keep, ds, c)

\* -------------------------------------------- update(): PLAYING, the bullets
\* a reflected bullet strikes every enemy within 75 that is not in its hitList:
\* a regular enemy drops to 0, a boss loses 400 * dmgMult
StrikeEnemy(w, b, i, c) ==
    LET e == w.enemies[i]
        e1 == [e EXCEPT !.health = IF ~IsBoss(e) THEN 0
                                   ELSE e.health - (400 * c.dmgMult2 * HS) \div 2]
        w1 == [w EXCEPT !.enemies[i] = e1]
    IN  <<addStyle(w1, 200, "reflect_hit", c.inAir),
          [b EXCEPT !.hitList = Append(b.hitList, e.id),
                    !.hits = Append(b.hits, e.id)]>>

InHitList(b, id) == \E k \in 1..Len(b.hitList) : b.hitList[k] = id

\* the sweep with no look at the hitList
RECURSIVE SweepAll(_, _, _, _, _)
SweepAll(w, b, i, near, c) ==
    IF i > Len(w.enemies) THEN <<w, b>>
    ELSE IF w.enemies[i].id \in near
    THEN LET r == StrikeEnemy(w, b, i, c) IN SweepAll(r[1], r[2], i + 1, near, c)
    ELSE SweepAll(w, b, i + 1, near, c)

RECURSIVE Sweep(_, _, _, _, _)
Sweep(w, b, i, near, c) ==
    IF i > Len(w.enemies) THEN <<w, b>>
    ELSE IF ~InHitList(b, w.enemies[i].id) /\ w.enemies[i].id \in near
    THEN LET r == StrikeEnemy(w, b, i, c) IN Sweep(r[1], r[2], i + 1, near, c)
    ELSE Sweep(w, b, i + 1, near, c)

\* a reflection that is scored like a reflected bullet's hit
ReflectScoredAsHit(w, b, c) ==
    <<addStyle([w EXCEPT !.hitStop = 14,
                         !.obs.parries = w.obs.parries + 1,
                         !.obs.parryFrom = w.style,
                         !.obs.offenceIn = w.obs.offenceIn \cup {w.p.state}], 200, "reflect_hit", c.inAir),
      [b EXCEPT !.owner = "player", !.isReflected = TRUE]>>

\* an enemy bullet near an attacking player is reflected; obs keeps the score
\* the parry found
Reflect(w, b, c) ==
    <<addStyle([w EXCEPT !.hitStop = 14,
                         !.obs.parries = w.obs.parries + 1,
                         !.obs.parryFrom = w.style,
                         !.obs.offenceIn = w.obs.offenceIn \cup {w.p.state}], 500, "parry", c.inAir),
      [b EXCEPT !.owner = "player", !.isReflected = TRUE]>>

BulletHit(w) ==
    [w EXCEPT !.p.health = w.p.health - 20 * HS,
              !.p.state = "hurt",
              !.p.stateTimer = 20 * TS,
              !.obs.penalty.owed = TRUE,
              !.obs.hits = w.obs.hits + 1,
              !.obs.struckIn = w.obs.struckIn \cup {w.p.state}]

\* the body of bulletsRef.current.filter for one bullet; bd.distP is the bullet's
\* distance to the player, bd.near the enemies within 75 of it, bd.away whether
\* it is 2000 or more from the player
BulletStep(w, b, bd, c) ==
    IF b.owner = "enemy" /\ c.isPAttacking /\ bd.distP < 150
    THEN LET r == Reflect(w, b, c) IN [w |-> r[1], keep |-> <<r[2]>>]
    ELSE IF b.owner = "enemy" /\ bd.distP < 50
            /\ w.p.state # "dodge" /\ w.p.state # "hurt"
    THEN [w |-> BulletHit(w), keep |-> <<>>]
    ELSE LET r == IF b.owner = "player" /\ b.isReflected
                  THEN Sweep(w, b, 1, bd.near, c)
                  ELSE <<w, b>>
         IN  [w |-> r[1], keep |-> IF bd.away THEN <<>> ELSE <<r[2]>>]

RECURSIVE BulletPass(_, _, _, _, _)
BulletPass(w, i, kept, bds, c) ==
    IF i > Len(w.bullets) THEN [w EXCEPT !.bullets = kept]
    ELSE LET r == BulletStep(w, w.bullets[i], bds[i], c)
         IN  BulletPass(r.w, i + 1, kept \o r.keep, bds, c)

\* ------------------------------------------------------------- the spawner
\* what is observed of the last counted spawn: its number in the cycle, the
\* slots in force, the bosses and regular enemies it added, and the bosses of
\* the cycle so far
NoSpawn == [n |-> 0, slots |-> {}, bosses |-> 0, regulars |-> 0, inCycle |-> 0]

UsedIds(w) ==
    {w.enemies[i].id : i \in 1..Len(w.enemies)} \cup {w.clashTargetId}
    \cup UNION {{w.bullets[i].hitList[k] : k \in 1..Len(w.bullets[i].hitList)}
                : i \in 1..Len(w.bullets)}

\* ids are fresh random strings: here the least number no live reference holds
FreshId(w) == CHOOSE n \in 1..(Cardinality(UsedIds(w)) + 1) : n \notin UsedIds(w)

NewEnemy(id, type, cooldown) ==
    [id |-> id, type |-> type,
     health |-> (IF type = "ENEMY_STRIKER" THEN 60
                 ELSE IF type = "ENEMY_DEFENDER" THEN 220
                 ELSE IF type = "ENEMY_LANCER" THEN 110 ELSE 100) * HS,
     state |-> "idle", stateTimer |-> 0, windup |-> 0,
     attackCooldown |-> cooldown, facing |-> -1]

spawnBoss(w) ==
    [w EXCEPT !.enemies = Append(w.enemies,
        [id |-> FreshId(w), type |-> "BOSS", health |-> 1400 * HS, state |-> "idle",
         stateTimer |-> 0, windup |-> 0, attackCooldown |-> 120, facing |-> -1])]

\* generateBossIndices(): two different indices in 1..15
generateBossIndices(w, slots) == [w EXCEPT !.bossIdx = slots]

\* spawnEnemy() with the cycle closed one spawn early
spawnEnemyEarlyReset(w, r) ==
    IF Len(w.enemies) >= ENEMY_CAP THEN w
    ELSE LET n  == w.spawnCount + 1
             w1 == [w EXCEPT !.spawnCount = n]
             w2 == IF n \in w1.bossIdx THEN spawnBoss(w1) ELSE w1
             w2a == [w2 EXCEPT !.enemies =
                        Append(w2.enemies, NewEnemy(FreshId(w2), r.type, r.cooldown))]
             w3 == [w2a EXCEPT !.obs.lastSpawn =
                        [n |-> n, slots |-> w.bossIdx,
                         bosses |-> Len(w2.enemies) - Len(w.enemies),
                         regulars |-> Len(w2a.enemies) - Len(w2.enemies),
                         inCycle |-> (IF n = 1 THEN 0 ELSE w.obs.lastSpawn.inCycle)
                                     + Len(w2.enemies) - Len(w.enemies)]]
         IN  IF n >= CYCLE_LENGTH - 1
             THEN generateBossIndices([w3 EXCEPT !.spawnCount = 0], r.slots)
             ELSE w3

\* spawnEnemy(); r.type, r.cooldown and r.slots are what Math.random() yields
spawnEnemy(w, r) ==
    IF Len(w.enemies) >= ENEMY_CAP THEN w
    ELSE LET n  == w.spawnCount + 1
             w1 == [w EXCEPT !.spawnCount = n]
             w2 == IF n \in w1.bossIdx THEN spawnBoss(w1) ELSE w1
             w2a == [w2 EXCEPT !.enemies =
                        Append(w2.enemies, NewEnemy(FreshId(w2), r.type, r.cooldown))]
             w3 == [w2a EXCEPT !.obs.lastSpawn =
                        [n |-> n, slots |-> w.bossIdx,
                         bosses |-> Len(w2.enemies) - Len(w.enemies),
                         regulars |-> Len(w2a.enemies) - Len(w2.enemies),
                         inCycle |-> (IF n = 1 THEN 0 ELSE w.obs.lastSpawn.inCycle)
                                     + Len(w2.enemies) - Len(w.enemies)]]
         IN  IF n >= CYCLE_LENGTH
             THEN generateBossIndices([w3 EXCEPT !.spawnCount = 0], r.slots)
             ELSE w3

\* if (spawnTimerRef.current-- <= 0) { spawnEnemy(); spawnTimerRef.current = 140 + random * 50 }
SpawnTick(w, r) ==
    IF w.spawnTimer <= 0
    THEN [spawnEnemy(w, r) EXCEPT !.spawnTimer = r.delay]
    ELSE [w EXCEPT !.spawnTimer = w.spawnTimer - 1]

\* a check that lets a player at exactly 0 play on
GameOverCheckBelowZero(w) ==
    IF w.p.health < 0 THEN OnStateChange(w, "GAME_OVER") ELSE w

GameOverCheck(w) == IF w.p.health <= 0 THEN OnStateChange(w, "GAME_OVER") ELSE w

\* ------------------------------------------------------ inputs of one tick
\* A scenario sc bounds what the environment does in a run: the keys the user
\* touches (sc.keys), the heights, distances and random draws a tick may see,
\* and the number of ticks (sc.maxTicks).
DistNear == [dx |-> 50, dy |-> 0, side |-> -1]
DistMid == [dx |-> 200, dy |-> 0, side |-> -1]
\* within a lancer's reach, beyond the reach of a blow or a clash
DistLance == [dx |-> 250, dy |-> 0, side |-> -1]
DistFar == [dx |-> 1000, dy |-> 0, side |-> -1]
BulletAt == [distP |-> 0, away |-> FALSE]
BulletClose == [distP |-> 100, away |-> FALSE]
BulletOff == [distP |-> 1000, away |-> FALSE]
BulletGone == [distP |-> 3000, away |-> TRUE]

EnemyIds(es) == {es[i].id : i \in 1..Len(es)}
NearChoices(es) == {{}, EnemyIds(es)} \cup {{x} : x \in EnemyIds(es)}
BulletInputs(sc, es) == {[distP |-> s.distP, away |-> s.away, near |-> n]
                           : s \in sc.bulletDists, n \in NearChoices(es)}
NoDraw == [type |-> "ENEMY_SWORD", cooldown |-> 60, delay |-> 140,
           slots |-> bossIndicesInCycle]

TickInputs(sc) ==
    LET playing == gameState = "PLAYING" IN
    [alt : sc.alts,
     altAfter : IF playing THEN sc.alts ELSE {0},
     stale : IF attackStale THEN {TRUE} ELSE IF playing THEN sc.stale ELSE {FALSE},
     held : IF jHeldLong THEN {TRUE}
            ELSE IF "KeyJ" \in keys /\ playing THEN sc.held ELSE {FALSE},
     spinPhase : IF playing /\ "KeyJ" \in keys /\ enemies # <<>> /\ TRUE \in sc.held
                 THEN BOOLEAN ELSE {FALSE},
     ds : IF playing THEN [1..Len(enemies) -> sc.dists] ELSE {<<>>},
     bds : IF playing THEN [1..Len(bullets) -> BulletInputs(sc, enemies)] ELSE {<<>>},
     rnd : IF playing /\ spawnTimer <= 0 /\ Len(enemies) < ENEMY_CAP
           THEN [type : sc.spawnTypes, cooldown : sc.cooldowns, delay : sc.delays,
                 slots : IF enemySpawnCountInCycle + 1 >= CYCLE_LENGTH
                         THEN sc.slots ELSE {bossIndicesInCycle}]
           ELSE {[NoDraw EXCEPT !.delay = d] : d \in sc.delays}]

\* ------------------------------------------------------------- update()
\* one PLAYING tick after the prologue, under the inputs in env
PlayingTick(w, ks, idx, dt, env) ==
    LET onGround == IsOnGround(env.alt)
        w0 == [w EXCEPT !.attackStale = env.stale, !.obs.hits = 0,
                        !.obs.struckIn = {}, !.obs.offenceIn = {}]
        w1 == StylePenalty(StyleDecay(w0, idx, dt), idx)
        w2 == PlayerTick(w1, ks, env.held, onGround, dt)
        c  == [isPAttacking |-> w2.p.state \in AttackStates,
               dmgMult2 |-> DmgMult2(idx), idx |-> idx, dt |-> dt,
               spinPhase |-> env.spinPhase, inAir |-> IsInAir(env.altAfter)]
        w3 == EnemyPass(w2, 1, <<>>, env.ds, c)
        w4 == BulletPass(w3, 1, <<>>,
                         [i \in 1..Len(w3.bullets) |->
                            IF i <= Len(w.bullets) THEN env.bds[i]
                            ELSE [distP |-> 1000, away |-> FALSE, near |-> {}]], c)
    IN  GameOverCheck(SpawnTick(w4, env.rnd))

\* update() when no hit-stop is left
ActiveTick(w, mode, ks, env) ==
    LET idx == RankIndex(w.style)
        dt  == Dt(w)
        w1  == TickCooldown(BloodHeal(RecoverEnergy(w, idx, dt), dt))
    IN  IF mode = "CLASHING"
        THEN ClashTick(w1, ks, IsInAir(env.alt))
        ELSE PlayingTick(w1, ks, idx, dt, env)

\* a frozen tick that lets the clash cooldown run
FrozenTickCooling(w) ==
    [w EXCEPT !.hitStop = w.hitStop - 1, !.clashCooldown = Max(0, w.clashCooldown - 1)]

\* update() while hit-stop is left: the counter runs down and nothing else moves
FrozenTick(w) == [w EXCEPT !.hitStop = w.hitStop - 1]

Update(sc) ==
    /\ gameState \in {"PLAYING", "CLASHING"}
    /\ pending = NoRequest \/ staleTicks < MaxStaleTicks
    /\ IF hitStop > 0
       THEN /\ Commit(FrozenTick(World))
            /\ UNCHANGED <<jHeldLong, ticks>>
       ELSE /\ ticks < sc.maxTicks
            /\ \E env \in TickInputs(sc) :
                 LET w == ActiveTick(World, gameState, keys, env)
                 IN  /\ Commit(w)
                     /\ jHeldLong' = env.held
            /\ ticks' = ticks + 1
    /\ staleTicks' = IF pending = NoRequest THEN 0 ELSE staleTicks + 1
    /\ UNCHANGED <<gameState, keys>>

\* ---------------------------------------------------------- key handlers
handleKeyDown(k) ==
    /\ k \notin keys
    /\ keys' = keys \cup {k}
    /\ jHeldLong' = IF k = "KeyJ" THEN FALSE ELSE jHeldLong
    /\ obs' = IF k = "KeyJ" /\ gameState = "CLASHING"
              THEN [obs EXCEPT !.pressed = TRUE] ELSE obs
    /\ UNCHANGED <<gameState, pending, staleTicks, player, prevHealth, enemies, bullets,
                   decoy,
                   stylePoints, lastSkillUsed, attackStale, processedKeys, hitStop,
                   clashProgress, clashTimer, clashTargetId, clashCooldown, spawnTimer,
                   enemySpawnCountInCycle, bossIndicesInCycle, ticks>>

\* a release that dodges whatever the cooldown
ReleaseDodgeKeyNoCooldown(p, out, heldLong) ==
    IF ~heldLong /\ p.state # "hurt"
    THEN <<[p EXCEPT !.state = "dodge", !.stateTimer = 16 * TS,
                     !.dodgeCooldown = 35 * TS], out>>
    ELSE IF heldLong /\ p.dodgeCooldown <= 0 /\ p.slowMoEnergy > 30 * ES
    THEN <<p, TRUE>>
    ELSE <<p, out>>

\* the release of KeyL after holdTime ms: under 300 a dodge, from 300 on a decoy
ReleaseDodgeKey(p, out, heldLong) ==
    IF ~heldLong /\ p.dodgeCooldown <= 0 /\ p.state # "hurt"
    THEN <<[p EXCEPT !.state = "dodge", !.stateTimer = 16 * TS,
                     !.dodgeCooldown = 35 * TS], out>>
    ELSE IF heldLong /\ p.dodgeCooldown <= 0 /\ p.slowMoEnergy > 30 * ES
    THEN <<p, TRUE>>
    ELSE <<p, out>>

handleKeyUp(k) ==
    /\ k \in keys
    /\ keys' = keys \ {k}
    /\ processedKeys' = processedKeys \ {k}
    /\ jHeldLong' = IF k = "KeyJ" THEN FALSE ELSE jHeldLong
    /\ \E lHeldLong \in (IF k = "KeyL" THEN BOOLEAN ELSE {FALSE}) :
          LET r == IF k = "KeyL" THEN ReleaseDodgeKey(player, decoy, lHeldLong)
                   ELSE IF k = "KeyJ" /\ player.state = "spin_attack"
                   THEN <<[player EXCEPT !.state = "idle", !.stateTimer = 0], decoy>>
                   ELSE <<player, decoy>>
          IN  /\ player' = r[1] /\ decoy' = r[2]
              /\ obs' = IF k = "KeyL"
                        THEN [obs EXCEPT !.release = IF lHeldLong THEN "long" ELSE "short"]
                        ELSE obs
    /\ UNCHANGED <<gameState, pending, staleTicks, prevHealth, enemies, bullets,
                   stylePoints, lastSkillUsed, attackStale, hitStop,
                   clashProgress, clashTimer, clashTargetId, clashCooldown, spawnTimer,
                   enemySpawnCountInCycle, bossIndicesInCycle, ticks>>

KeyDown(sc) == \E k \in sc.keys : handleKeyDown(k)
KeyUp(sc) == \E k \in sc.keys : handleKeyUp(k)

\* ------------------------------------------------------------- the host
\* React renders the requested mode: the loop closure is replaced by one that
\* reads the new mode
HostRender ==
    /\ pending # NoRequest
    /\ gameState' = pending
    /\ pending' = NoRequest
    /\ staleTicks' = 0
    /\ obs' = IF pending = "CLASHING" /\ gameState # "CLASHING"
              THEN [obs EXCEPT !.resolutions = 0] ELSE obs
    /\ UNCHANGED <<player, prevHealth, enemies, bullets, decoy, stylePoints, lastSkillUsed,
                   attackStale, keys, processedKeys, jHeldLong, hitStop, clashProgress,
                   clashTimer, clashTargetId, clashCooldown, spawnTimer,
                   enemySpawnCountInCycle, bossIndicesInCycle, ticks>>

\* ------------------------------------------------------------------ Init
NewPlayer ==
    [health |-> PLAYER_MAX_HEALTH * HS, state |-> "idle", stateTimer |-> 0,
     isSlowMoActive |-> FALSE, slowMoEnergy |-> MAX_ENERGY * ES, airComboCount |-> 0,
     facing |-> 1, bloodLife |-> 0, dodgeCooldown |-> 0]

\* a session in play right after resetGame()
InitSession ==
    /\ gameState = "PLAYING" /\ pending = NoRequest /\ staleTicks = 0
    /\ player = NewPlayer /\ prevHealth = PLAYER_MAX_HEALTH * HS
    /\ bullets = <<>> /\ decoy = FALSE
    /\ stylePoints = 0 /\ lastSkillUsed = "null" /\ attackStale = FALSE
    /\ keys = {} /\ processedKeys = {} /\ jHeldLong = FALSE
    /\ hitStop = 0 /\ clashProgress = CLASH_START_PROGRESS
    /\ clashTimer = CLASH_START_TIMER /\ clashTargetId = 0 /\ clashCooldown = 0
    /\ spawnTimer = 80 /\ enemySpawnCountInCycle = 0
    /\ ticks = 0
    /\ obs = [resolutions |-> 0, cooled |-> 60, wait |-> 0, taps |-> 0, pressed |-> FALSE, release |-> "none", grounded |-> TRUE, hits |-> 0, struckIn |-> {}, offenceIn |-> {}, parries |-> 0, parryFrom |-> 0, penalty |-> NoPenalty, lastSpawn |-> NoSpawn]

\* ----------------------------------------------------- the host: sessions
\* the refs of a Game component as useRef() creates them when it mounts
Constructed ==
    [p |-> NewPlayer, prevHealth |-> PLAYER_MAX_HEALTH * HS, enemies |-> <<>>,
     bullets |-> <<>>, decoy |-> FALSE, style |-> 0, lastSkill |-> "null", attackStale |-> FALSE,
     processed |-> {}, hitStop |-> 0, clashProgress |-> CLASH_START_PROGRESS,
     clashTimer |-> CLASH_START_TIMER, clashTargetId |-> 0, clashCooldown |-> 0,
     spawnTimer |-> 80, spawnCount |-> 0, bossIdx |-> {}, pending |-> NoRequest,
     obs |-> [resolutions |-> 0, cooled |-> 60, wait |-> 0, taps |-> 0, pressed |-> FALSE, release |-> "none", grounded |-> TRUE, hits |-> 0, struckIn |-> {}, offenceIn |-> {}, parries |-> 0, parryFrom |-> 0, penalty |-> NoPenalty, lastSpawn |-> NoSpawn]]

\* resetGame(): the refs it assigns; clashTimerRef, hitStopRef, spawnTimerRef and
\* the key maps are not among them
resetGame(w, slots) ==
    generateBossIndices(
        [w EXCEPT !.p = NewPlayer, !.enemies = <<>>, !.bullets = <<>>, !.decoy = FALSE,
                  !.style = 0,
                  !.spawnCount = 0, !.clashProgress = CLASH_START_PROGRESS,
                  !.clashTargetId = 0, !.clashCooldown = 0, !.lastSkill = "null",
                  !.attackStale = FALSE, !.prevHealth = PLAYER_MAX_HEALTH * HS,
                  !.obs.lastSpawn = NoSpawn],
        slots)

\* a new key for <Game>: the old component unmounts, a new one mounts
Mount(mode) ==
    /\ Commit(Constructed)
    /\ gameState' = mode
    /\ keys' = {} /\ jHeldLong' = FALSE /\ staleTicks' = 0
    /\ UNCHANGED ticks

\* the start button: setGameState(PLAYING); the effect finds the previous mode
\* START and calls resetGame()
StartGame(sc) ==
    /\ gameState = "START"
    /\ \E slots \in sc.slots : Commit(resetGame(World, slots))
    /\ gameState' = "PLAYING"
    /\ UNCHANGED <<keys, jHeldLong, staleTicks, ticks>>

\* the guide button of the menu
OpenGuide ==
    /\ gameState = "START"
    /\ gameState' = "GUIDE"
    /\ UNCHANGED <<pending, staleTicks, player, prevHealth, enemies, bullets, decoy,
                   stylePoints, lastSkillUsed, attackStale, keys, processedKeys,
                   jHeldLong, hitStop, clashProgress, clashTimer, clashTargetId,
                   clashCooldown, spawnTimer, enemySpawnCountInCycle,
                   bossIndicesInCycle, ticks, obs>>

\* handleBackToMenu(): setGameState(START) and a new key
handleBackToMenu ==
    /\ gameState \in {"GUIDE", "GAME_OVER"}
    /\ Mount("START")

\* handleRestart(): a new key and setGameState(PLAYING); the new component's
\* prevGameStateRef starts at PLAYING, so its effect does not call resetGame()
handleRestart ==
    /\ gameState = "GAME_OVER"
    /\ Mount("PLAYING")

\* ---------------------------------------------------------- clash scenario
MaxTicksClash == 60
ScClash ==
    [keys |-> {"KeyJ"}, alts |-> {0}, stale |-> {FALSE}, held |-> {FALSE},
     dists |-> {DistNear}, bulletDists |-> {BulletOff},
     spawnTypes |-> {"ENEMY_SWORD"}, cooldowns |-> {60}, delays |-> {140},
     slots |-> {{4, 11}}, maxTicks |-> MaxTicksClash]

\* a swordsman one tick from the end of its windup and a boss that has just
\* begun its own, both in reach of the player
InitClash ==
    /\ InitSession
    /\ bossIndicesInCycle = {4, 11}
    /\ enemies = << [NewEnemy(1, "ENEMY_SWORD", -1) EXCEPT !.windup = 1 * TS],
                    [id |-> 2, type |-> "BOSS", health |-> 1400 * HS, state |-> "idle",
                     stateTimer |-> 0, windup |-> 50 * TS, attackCooldown |-> -1,
                     facing |-> -1] >>

\* the same clash 297 ticks after it began, the attack key pressed in the first
\* tick (the blow that met the swordsman's also struck the boss) and not since:
\* three ticks of the countdown are left
MaxTicksClashEnd == 12
ScClashEnd == [ScClash EXCEPT !.maxTicks = MaxTicksClashEnd]

\* the first clash of the session, n of its ticks gone without a tap, the
\* meter at style, the boss's windup at windup
ClashWith(n, style, windup) ==
    /\ gameState = "CLASHING" /\ pending = NoRequest
    /\ player = [NewPlayer EXCEPT !.state = "attack",
                                 !.stateTimer = (ATTACK_DURATION - 1) * TS,
                                 !.isSlowMoActive = TRUE]
    /\ prevHealth = PLAYER_MAX_HEALTH * HS
    /\ enemies = << [NewEnemy(1, "ENEMY_SWORD", 140) EXCEPT !.state = "attack",
                                                          !.stateTimer = 39 * TS],
                    [id |-> 2, type |-> "BOSS", health |-> (1400 - 45) * HS,
                     state |-> "hurt", stateTimer |-> 19 * TS, windup |-> windup,
                     attackCooldown |-> -1, facing |-> -1] >>
    /\ bullets = <<>> /\ decoy = FALSE
    /\ stylePoints = style /\ lastSkillUsed = "attack"
    /\ attackStale = FALSE
    /\ keys = {} /\ processedKeys = {} /\ jHeldLong = FALSE
    /\ hitStop = 0 /\ clashProgress = CLASH_START_PROGRESS - n * CLASH_DRAIN_RATE
    /\ clashTimer = CLASH_START_TIMER - n /\ clashTargetId = 1 /\ clashCooldown = 0
    /\ spawnTimer = 79 /\ enemySpawnCountInCycle = 0 /\ bossIndicesInCycle = {4, 11}
    /\ obs = [resolutions |-> 0, cooled |-> 60, wait |-> 0, taps |-> 0, pressed |-> FALSE, release |-> "none", grounded |-> TRUE, hits |-> 0, struckIn |-> {}, offenceIn |-> {}, parries |-> 0, parryFrom |-> 0, penalty |-> NoPenalty, lastSpawn |-> NoSpawn]

\* the boss had just begun its windup when the clash opened
ClashAt(n, style) == ClashWith(n, style, 49 * TS)

\* the session's first hit (250 x 2.5 x 0.1) opened the clash
ClashAfter(n) == ClashAt(n, (625 * SS) \div 10)

LateClash == ClashAfter(297)

InitClashEnd == LateClash /\ staleTicks = 0 /\ ticks = 0

NextClashEnd ==
    Update(ScClashEnd) \/ KeyDown(ScClashEnd) \/ KeyUp(ScClashEnd) \/ HostRender
SpecClashEnd == InitClashEnd /\ [][NextClashEnd]_vars

\* the same clash near its half and near its end, at ranks D, A and OMG: three
\* taps from 140 ticks in still reach the threshold, three taps from 160 ticks
\* in do not, and from 297 ticks in the countdown runs out
MaxTicksClashMid == 8
ScClashMid == [ScClash EXCEPT !.maxTicks = MaxTicksClashMid]
InitClashMid ==
    /\ \E n \in {140, 160, 297}, idx \in {0, 3, 7} :
          ClashAt(n, Threshold(idx) + (625 * SS) \div 10)
    /\ staleTicks = 0 /\ ticks = 0
NextClashMid ==
    Update(ScClashMid) \/ KeyDown(ScClashMid) \/ KeyUp(ScClashMid) \/ HostRender
SpecClashMid == InitClashMid /\ [][NextClashMid]_vars

NextClash == Update(ScClash) \/ KeyDown(ScClash) \/ KeyUp(ScClash) \/ HostRender
SpecClash == InitClash /\ [][NextClash]_vars

\* --------------------------------------------------- lost target scenario
\* a gunner one tick from its shot and a swordsman four ticks from the end of
\* its windup, both out of reach of a blow and within reach of a clash: the
\* bullet the player reflects can fell the swordsman the tick before its blow
\* meets the player's
MaxTicksLostTarget == 7
ScLostTarget ==
    [ScClash EXCEPT !.dists = {DistMid}, !.bulletDists = {BulletClose, BulletOff},
                    !.maxTicks = MaxTicksLostTarget]
InitLostTarget ==
    /\ InitSession
    /\ bossIndicesInCycle = {4, 11}
    /\ enemies = << [NewEnemy(1, "ENEMY_GUN", -1) EXCEPT !.windup = 1 * TS],
                    [NewEnemy(2, "ENEMY_SWORD", -1) EXCEPT !.windup = 4 * TS] >>
NextLostTarget ==
    \/ Update(ScLostTarget) \/ KeyDown(ScLostTarget) \/ KeyUp(ScLostTarget)
    \/ HostRender
SpecLostTarget == InitLostTarget /\ [][NextLostTarget]_vars

\* ------------------------------------------------- second clash scenario
\* the clash three taps from a win and three ticks from the end of its
\* countdown, the boss's windup ten ticks further on; the next 64 ticks, the
\* enemies staying out of reach of a blow and within reach of a clash
MaxTicksRematch == 64
ScRematch == [ScClash EXCEPT !.dists = {DistMid}, !.maxTicks = MaxTicksRematch]
\* a session whose player has held the attack key from before its first tick
\* and spins since, 27 ticks in, when the attack of the swordsman that was two
\* ticks from the end of its windup has two ticks left to meet a blow
InitSpinning ==
    /\ gameState = "PLAYING" /\ pending = NoRequest
    /\ player = [NewPlayer EXCEPT !.state = "spin_attack", !.stateTimer = 3 * TS,
                                 !.slowMoEnergy = (2608 * ES) \div 10]
    /\ prevHealth = PLAYER_MAX_HEALTH * HS
    /\ enemies = << [NewEnemy(1, "ENEMY_SWORD", 140) EXCEPT !.state = "attack",
                                                          !.stateTimer = 14 * TS] >>
    /\ bullets = <<>> /\ decoy = FALSE
    /\ stylePoints = 0 /\ lastSkillUsed = "null" /\ attackStale = FALSE
    /\ keys = {"KeyJ"} /\ processedKeys = {"KeyJ"} /\ jHeldLong = TRUE
    /\ hitStop = 0 /\ clashProgress = CLASH_START_PROGRESS
    /\ clashTimer = CLASH_START_TIMER /\ clashTargetId = 0 /\ clashCooldown = 0
    /\ spawnTimer = 53 /\ enemySpawnCountInCycle = 0 /\ bossIndicesInCycle = {4, 11}
    /\ obs = [resolutions |-> 0, cooled |-> 60, wait |-> 0, taps |-> 0, pressed |-> FALSE, release |-> "none", grounded |-> TRUE, hits |-> 0, struckIn |-> {}, offenceIn |-> {}, parries |-> 0, parryFrom |-> 0, penalty |-> NoPenalty, lastSpawn |-> NoSpawn]

\* the spinning player is followed for the last MaxTicksSpin ticks of the run
MaxTicksSpin == 4
InitRematch ==
    /\ \/ /\ \E n \in {140, 297} : ClashWith(n, (625 * SS) \div 10, 39 * TS)
          /\ ticks = 0
       \/ /\ InitSpinning
          /\ ticks = MaxTicksRematch - MaxTicksSpin
    /\ staleTicks = 0
NextRematch ==
    Update(ScRematch) \/ KeyDown(ScRematch) \/ KeyUp(ScRematch) \/ HostRender
SpecRematch == InitRematch /\ [][NextRematch]_vars

\* ---------------------------------------------------------- style scenario
MaxTicksStyle == 24
ScStyle ==
    [keys |-> {"KeyS"}, alts |-> {0}, stale |-> {FALSE, TRUE}, held |-> {FALSE},
     dists |-> {DistNear, DistFar}, bulletDists |-> {BulletOff},
     spawnTypes |-> {"ENEMY_SWORD"}, cooldowns |-> {60}, delays |-> {140},
     slots |-> {{4, 11}}, maxTicks |-> MaxTicksStyle]

\* a session whose meter stands where a lost clash (a rank threshold) or the
\* fourth won clash in a row (GOD plus the win bonus at the repeated-skill
\* multiplier) leaves it, with a boss that has outlived the clash and is one
\* tick from the end of its windup; the player is unhurt or has taken two of
\* the boss's blows
InitStyle ==
    /\ gameState = "PLAYING" /\ pending = NoRequest /\ staleTicks = 0
    /\ \E h \in {PLAYER_MAX_HEALTH, PLAYER_MAX_HEALTH - 2 * 35} :
          /\ player = [NewPlayer EXCEPT !.health = h * HS]
          /\ prevHealth = h * HS
    /\ enemies = << [id |-> 1, type |-> "BOSS", health |-> 1400 * HS, state |-> "idle",
                     stateTimer |-> 0, windup |-> 1 * TS, attackCooldown |-> -1,
                     facing |-> -1] >>
    /\ bullets = <<>> /\ decoy = FALSE
    /\ \/ stylePoints \in {Threshold(0), Threshold(3), Threshold(6)}
          /\ lastSkillUsed = "attack"
       \/ stylePoints = Threshold(TOP_RANK) + 400 * SS
          /\ lastSkillUsed = "clash_win"
    /\ attackStale = FALSE
    /\ keys = {} /\ processedKeys = {} /\ jHeldLong = FALSE
    /\ hitStop = 0 /\ clashProgress = CLASH_START_PROGRESS
    /\ clashTimer = CLASH_START_TIMER /\ clashTargetId = 0 /\ clashCooldown = 0
    /\ spawnTimer = 80 /\ enemySpawnCountInCycle = 0 /\ bossIndicesInCycle = {4, 11}
    /\ ticks = 0
    /\ obs = [resolutions |-> 0, cooled |-> 60, wait |-> 0, taps |-> 0, pressed |-> FALSE, release |-> "none", grounded |-> TRUE, hits |-> 0, struckIn |-> {}, offenceIn |-> {}, parries |-> 0, parryFrom |-> 0, penalty |-> NoPenalty, lastSpawn |-> NoSpawn]

NextStyle == Update(ScStyle) \/ KeyDown(ScStyle) \/ KeyUp(ScStyle) \/ HostRender
SpecStyle == InitStyle /\ [][NextStyle]_vars

\* --------------------------------------------------------- bullet scenario
MaxTicksBullet == 7
ScBullet ==
    [keys |-> {"KeyJ"}, alts |-> {0}, stale |-> {FALSE}, held |-> {FALSE},
     dists |-> {DistFar},
     bulletDists |-> {BulletAt, BulletClose, BulletOff, BulletGone},
     spawnTypes |-> {"ENEMY_SWORD"}, cooldowns |-> {60}, delays |-> {140},
     slots |-> {{4, 11}}, maxTicks |-> MaxTicksBullet]

\* a gunner one tick from its shot, a swordsman and a boss, all of them out of
\* the player's reach; the player is unhurt or has taken four bullets
InitBullet ==
    /\ gameState = "PLAYING" /\ pending = NoRequest /\ staleTicks = 0
    /\ \E h \in {PLAYER_MAX_HEALTH, PLAYER_MAX_HEALTH - 4 * 20} :
          /\ player = [NewPlayer EXCEPT !.health = h * HS]
          /\ prevHealth = h * HS
    /\ enemies = << [NewEnemy(1, "ENEMY_GUN", -1) EXCEPT !.windup = 1 * TS],
                    [NewEnemy(2, "ENEMY_SWORD", 60) EXCEPT !.state = "run"],
                    [id |-> 3, type |-> "BOSS", health |-> 1400 * HS, state |-> "run",
                     stateTimer |-> 0, windup |-> 0, attackCooldown |-> 120,
                     facing |-> -1] >>
    /\ bullets = <<>> /\ decoy = FALSE
    /\ stylePoints = 0 /\ lastSkillUsed = "null" /\ attackStale = FALSE
    /\ keys = {} /\ processedKeys = {} /\ jHeldLong = FALSE
    /\ hitStop = 0 /\ clashProgress = CLASH_START_PROGRESS
    /\ clashTimer = CLASH_START_TIMER /\ clashTargetId = 0 /\ clashCooldown = 0
    /\ spawnTimer = 80 /\ enemySpawnCountInCycle = 0 /\ bossIndicesInCycle = {4, 11}
    /\ ticks = 0
    /\ obs = [resolutions |-> 0, cooled |-> 60, wait |-> 0, taps |-> 0, pressed |-> FALSE, release |-> "none", grounded |-> TRUE, hits |-> 0, struckIn |-> {}, offenceIn |-> {}, parries |-> 0, parryFrom |-> 0, penalty |-> NoPenalty, lastSpawn |-> NoSpawn]

NextBullet == Update(ScBullet) \/ KeyDown(ScBullet) \/ KeyUp(ScBullet) \/ HostRender
SpecBullet == InitBullet /\ [][NextBullet]_vars

\* ---------------------------------------------------------- spawn scenario
MaxTicksSpawn == 143
ScSpawn ==
    [keys |-> {"KeyS"}, alts |-> {0}, stale |-> {FALSE}, held |-> {FALSE},
     dists |-> {DistFar}, bulletDists |-> {BulletOff},
     spawnTypes |-> {"ENEMY_SWORD", "ENEMY_STRIKER"}, cooldowns |-> {60},
     delays |-> {140}, slots |-> {{4, 11}, {1, 15}}, maxTicks |-> MaxTicksSpawn]

\* what the spawn that counted n in a cycle with these slots left observed
SpawnSeen(n, slots) ==
    IF n = 0 THEN NoSpawn
    ELSE [n |-> n, slots |-> slots, bosses |-> IF n \in slots THEN 1 ELSE 0,
          regulars |-> 1, inCycle |-> Cardinality({x \in slots : x <= n})]

\* any point of a spawn cycle, the spawn timer run out, with no enemy or five
\* swordsmen alive, all of them far from the player
InitSpawn ==
    /\ gameState = "PLAYING" /\ pending = NoRequest /\ staleTicks = 0
    /\ player = NewPlayer /\ prevHealth = PLAYER_MAX_HEALTH * HS
    /\ \E k \in {0, ENEMY_CAP - 1} :
          enemies = [i \in 1..k |-> [NewEnemy(i, "ENEMY_SWORD", 60) EXCEPT !.state = "run"]]
    /\ bullets = <<>> /\ decoy = FALSE
    /\ stylePoints = 0 /\ lastSkillUsed = "null" /\ attackStale = FALSE
    /\ keys = {} /\ processedKeys = {} /\ jHeldLong = FALSE
    /\ hitStop = 0 /\ clashProgress = CLASH_START_PROGRESS
    /\ clashTimer = CLASH_START_TIMER /\ clashTargetId = 0 /\ clashCooldown = 0
    /\ spawnTimer = 0
    /\ enemySpawnCountInCycle \in 0..(CYCLE_LENGTH - 1)
    /\ bossIndicesInCycle \in ScSpawn.slots
    /\ ticks = 0
    /\ obs = [resolutions |-> 0, cooled |-> 60, wait |-> 0, taps |-> 0, pressed |-> FALSE, release |-> "none", grounded |-> TRUE, hits |-> 0, struckIn |-> {}, offenceIn |-> {}, parries |-> 0, parryFrom |-> 0, penalty |-> NoPenalty,
              lastSpawn |-> SpawnSeen(enemySpawnCountInCycle, bossIndicesInCycle)]

\* no enemy comes near the player here, so no change of mode is ever requested
NextSpawn == Update(ScSpawn) \/ KeyDown(ScSpawn) \/ KeyUp(ScSpawn)
SpecSpawn == InitSpawn /\ [][NextSpawn]_vars

\* ----------------------------------------------------------- host scenario
MaxTicksHost == 5
ScHost ==
    [keys |-> {"KeyL"}, alts |-> {0}, stale |-> {FALSE}, held |-> {FALSE},
     dists |-> {DistNear}, bulletDists |-> {BulletOff},
     spawnTypes |-> {"ENEMY_SWORD"}, cooldowns |-> {60}, delays |-> {140},
     slots |-> {{4, 11}, {1, 15}}, maxTicks |-> MaxTicksHost]

\* the application as it loads: the menu over a freshly mounted Game
InitMenu ==
    /\ gameState = "START" /\ staleTicks = 0 /\ ticks = 0
    /\ keys = {} /\ jHeldLong = FALSE
    /\ player = NewPlayer /\ prevHealth = PLAYER_MAX_HEALTH * HS
    /\ enemies = <<>> /\ bullets = <<>> /\ decoy = FALSE
    /\ stylePoints = 0 /\ lastSkillUsed = "null" /\ attackStale = FALSE
    /\ processedKeys = {} /\ hitStop = 0
    /\ clashProgress = CLASH_START_PROGRESS /\ clashTimer = CLASH_START_TIMER
    /\ clashTargetId = 0 /\ clashCooldown = 0
    /\ spawnTimer = 80 /\ enemySpawnCountInCycle = 0 /\ bossIndicesInCycle = {}
    /\ pending = NoRequest
    /\ obs = [resolutions |-> 0, cooled |-> 60, wait |-> 0, taps |-> 0, pressed |-> FALSE, release |-> "none", grounded |-> TRUE, hits |-> 0, struckIn |-> {}, offenceIn |-> {}, parries |-> 0, parryFrom |-> 0, penalty |-> NoPenalty, lastSpawn |-> NoSpawn]

\* a session started from the menu in which the player has taken two of a
\* boss's blows and the boss is one tick from the end of its next windup
InitNearDeath ==
    /\ gameState = "PLAYING" /\ pending = NoRequest /\ staleTicks = 0
    /\ player = [NewPlayer EXCEPT !.health = (PLAYER_MAX_HEALTH - 2 * 35) * HS]
    /\ prevHealth = (PLAYER_MAX_HEALTH - 2 * 35) * HS
    /\ enemies = << [id |-> 1, type |-> "BOSS", health |-> 1400 * HS, state |-> "idle",
                     stateTimer |-> 0, windup |-> 1 * TS, attackCooldown |-> -1,
                     facing |-> -1] >>
    /\ bullets = <<>> /\ decoy = FALSE
    /\ stylePoints = 0 /\ lastSkillUsed = "null" /\ attackStale = FALSE
    /\ keys = {} /\ processedKeys = {} /\ jHeldLong = FALSE
    /\ hitStop = 0 /\ clashProgress = CLASH_START_PROGRESS
    /\ clashTimer = CLASH_START_TIMER /\ clashTargetId = 0 /\ clashCooldown = 0
    /\ spawnTimer = 100 /\ enemySpawnCountInCycle = 4 /\ bossIndicesInCycle = {4, 11}
    /\ ticks = 0
    /\ obs = [resolutions |-> 0, cooled |-> 60, wait |-> 0, taps |-> 0, pressed |-> FALSE, release |-> "none", grounded |-> TRUE, hits |-> 0, struckIn |-> {}, offenceIn |-> {}, parries |-> 0, parryFrom |-> 0, penalty |-> NoPenalty, lastSpawn |-> SpawnSeen(4, {4, 11})]

InitHost == InitMenu \/ InitNearDeath
NextHost ==
    \/ Update(ScHost) \/ KeyDown(ScHost) \/ KeyUp(ScHost) \/ HostRender
    \/ StartGame(ScHost) \/ OpenGuide \/ handleBackToMenu \/ handleRestart
SpecHost == InitHost /\ [][NextHost]_vars

\* ----------------------------------------------------- rank lookup scenario
\* scores at, just under and just over every threshold, halfway up every band,
\* and the cap
RankScores ==
    {x \in {Threshold(i) + d : i \in 0..TOP_RANK, d \in {-1, 0, 1}}
            \cup {(Threshold(i) + Threshold(i + 1)) \div 2 : i \in 0..(TOP_RANK - 1)}
            \cup {STYLE_CAP * SS} : x >= 0}

\* the score is s, and getStyleData() has been asked for its rank
RankSeen(s) == [score |-> s, index |-> RankIndex(s)]

InitRank ==
    /\ gameState = "PLAYING" /\ pending = NoRequest /\ staleTicks = 0 /\ ticks = 0
    /\ keys = {} /\ jHeldLong = FALSE
    /\ player = NewPlayer /\ prevHealth = PLAYER_MAX_HEALTH * HS
    /\ enemies = <<>> /\ bullets = <<>> /\ decoy = FALSE
    /\ lastSkillUsed = "null" /\ attackStale = FALSE
    /\ processedKeys = {} /\ hitStop = 0
    /\ clashProgress = CLASH_START_PROGRESS /\ clashTimer = CLASH_START_TIMER
    /\ clashTargetId = 0 /\ clashCooldown = 0
    /\ spawnTimer = 80 /\ enemySpawnCountInCycle = 0 /\ bossIndicesInCycle = {4, 11}
    /\ stylePoints \in RankScores
    /\ obs = RankSeen(stylePoints)

\* the score becomes s; obs keeps the lookup made for the score before
getStyleData(s) ==
    /\ obs' = RankSeen(stylePoints)
    /\ stylePoints' = s
    /\ UNCHANGED <<gameState, pending, staleTicks, player, prevHealth, enemies,
                   bullets, decoy, lastSkillUsed, attackStale, keys, processedKeys,
                   jHeldLong, hitStop, clashProgress, clashTimer, clashTargetId,
                   clashCooldown, spawnTimer, enemySpawnCountInCycle,
                   bossIndicesInCycle, ticks>>

NextRank == \E s \in RankScores : getStyleData(s)
SpecRank == InitRank /\ [][NextRank]_vars

\* -------------------------------------------------------- addStyle scenario
MaxStyleCalls == 2

\* the (amount, skillName) pairs update() passes to addStyle
StyleCalls ==
    {<<250, "attack">>, <<600, "launcher">>, <<800, "downward_strike">>,
     <<500, "parry">>, <<4000, "clash_win">>}

NoStyleCall ==
    [calls |-> 0, before |-> 0, lastSkill |-> "null", amount |-> 0,
     skill |-> "null", inAir |-> FALSE, focus |-> FALSE]

InitAddStyle ==
    /\ gameState = "PLAYING" /\ pending = NoRequest /\ staleTicks = 0 /\ ticks = 0
    /\ keys = {} /\ jHeldLong = FALSE
    /\ \E focus \in BOOLEAN : player = [NewPlayer EXCEPT !.isSlowMoActive = focus]
    /\ prevHealth = PLAYER_MAX_HEALTH * HS
    /\ enemies = <<>> /\ bullets = <<>> /\ decoy = FALSE
    /\ stylePoints \in {0, 900 * SS, Threshold(3), 44900 * SS, STYLE_CAP * SS}
    /\ lastSkillUsed \in {"null", "attack", "launcher", "parry"}
    /\ attackStale = FALSE
    /\ processedKeys = {} /\ hitStop = 0
    /\ clashProgress = CLASH_START_PROGRESS /\ clashTimer = CLASH_START_TIMER
    /\ clashTargetId = 0 /\ clashCooldown = 0
    /\ spawnTimer = 80 /\ enemySpawnCountInCycle = 0 /\ bossIndicesInCycle = {4, 11}
    /\ obs = NoStyleCall

\* one call of addStyle; obs keeps what the call was given
ApplyStyle(sc) ==
    /\ ticks < sc.maxTicks
    /\ \E call \in StyleCalls, alt \in sc.alts :
          Commit([addStyle(World, call[1], call[2], IsInAir(alt)) EXCEPT
                    !.obs = [calls |-> obs.calls + 1, before |-> stylePoints,
                             lastSkill |-> lastSkillUsed, amount |-> call[1],
                             skill |-> call[2], inAir |-> IsInAir(alt),
                             focus |-> player.isSlowMoActive]])
    /\ ticks' = ticks + 1
    /\ UNCHANGED <<gameState, keys, jHeldLong, staleTicks>>

ScAddStyle == [alts |-> {0, 10}, maxTicks |-> MaxStyleCalls]
NextAddStyle == ApplyStyle(ScAddStyle)
SpecAddStyle == InitAddStyle /\ [][NextAddStyle]_vars

\* -------------------------------------------------------- penalty scenario
MaxTicksPenalty == 5
ScPenalty ==
    [keys |-> {"KeyS"}, alts |-> {0}, stale |-> {FALSE}, held |-> {FALSE},
     dists |-> {DistNear, DistFar}, bulletDists |-> {BulletOff},
     spawnTypes |-> {"ENEMY_SWORD"}, cooldowns |-> {60}, delays |-> {140},
     slots |-> {{4, 11}}, maxTicks |-> MaxTicksPenalty]

\* a session at half health, rank C: the bullet the player parried has just
\* struck the swordsman 2, who is still listed at health 0; the swordsman 3,
\* struck once by the player, is one tick from the end of his windup
InitPenalty ==
    /\ gameState = "PLAYING" /\ pending = NoRequest /\ staleTicks = 0
    /\ player = [NewPlayer EXCEPT !.health = 50 * HS]
    /\ prevHealth = 50 * HS
    /\ enemies = << [NewEnemy(1, "ENEMY_GUN", 140) EXCEPT !.state = "attack",
                                                        !.stateTimer = 10 * TS],
                    [NewEnemy(2, "ENEMY_SWORD", 60) EXCEPT !.state = "run",
                                                         !.health = 0],
                    [NewEnemy(3, "ENEMY_SWORD", -1) EXCEPT !.state = "hurt",
                                                         !.health = (100 - 45) * HS,
                                                         !.stateTimer = 5 * TS,
                                                         !.windup = 1 * TS] >>
    /\ bullets = << [NewBullet EXCEPT !.owner = "player", !.isReflected = TRUE,
                                      !.hitList = <<2>>, !.hits = <<2>>] >>
    /\ decoy = FALSE
    /\ stylePoints = Threshold(1) + (500 * 25 * SS) \div 100 + (200 * 25 * SS) \div 100
    /\ lastSkillUsed = "reflect_hit" /\ attackStale = FALSE
    /\ keys = {} /\ processedKeys = {} /\ jHeldLong = FALSE
    /\ hitStop = 0 /\ clashProgress = CLASH_START_PROGRESS
    /\ clashTimer = CLASH_START_TIMER /\ clashTargetId = 0 /\ clashCooldown = 0
    /\ spawnTimer = 50 /\ enemySpawnCountInCycle = 0 /\ bossIndicesInCycle = {4, 11}
    /\ ticks = 0
    /\ obs = [resolutions |-> 0, cooled |-> 60, wait |-> 0, taps |-> 0, pressed |-> FALSE, release |-> "none", grounded |-> TRUE, hits |-> 0, struckIn |-> {}, offenceIn |-> {}, parries |-> 1, parryFrom |-> 750,
              penalty |-> NoPenalty, lastSpawn |-> NoSpawn]

NextPenalty == Update(ScPenalty) \/ KeyDown(ScPenalty) \/ KeyUp(ScPenalty)
SpecPenalty == InitPenalty /\ [][NextPenalty]_vars

\* ---------------------------------------------------------- meter scenario
MaxTicksMeter == 4
ScMeter ==
    [keys |-> {"KeyK", "KeyL"}, alts |-> {0}, stale |-> {FALSE},
     held |-> {FALSE}, dists |-> {DistFar}, bulletDists |-> {BulletOff},
     spawnTypes |-> {"ENEMY_SWORD"}, cooldowns |-> {60}, delays |-> {140},
     slots |-> {{4, 11}}, maxTicks |-> MaxTicksMeter]

\* a session started from the menu, before its first spawn
InitFresh ==
    /\ InitSession
    /\ enemies = <<>> /\ bossIndicesInCycle = {4, 11}

InitMeter == InitFresh
NextMeter == Update(ScMeter) \/ KeyDown(ScMeter) \/ KeyUp(ScMeter)
SpecMeter == InitMeter /\ [][NextMeter]_vars

\* ---------------------------------------------------------- dodge scenario
\* a session before its first spawn in which only the dodge key is touched,
\* long enough for a dodge's cooldown to run out
MaxTicksDodge == 37
ScDodge == [ScMeter EXCEPT !.keys = {"KeyL"}, !.maxTicks = MaxTicksDodge]

\* a session whose player has held the attack key from before its first tick
\* and spins since, 202 ticks in: the first enemy has spawned, the dodge key
\* was held and let go when the meter had come down to 31.65, and the decoy is
\* out since; the meter is at 3.85. The run follows it for MaxTicksDecoy ticks.
MaxTicksDecoy == 4
InitSpent ==
    /\ gameState = "PLAYING" /\ pending = NoRequest /\ staleTicks = 0
    /\ player = [NewPlayer EXCEPT !.state = "spin_attack",
                                 !.slowMoEnergy = (385 * ES) \div 100]
    /\ prevHealth = PLAYER_MAX_HEALTH * HS
    /\ enemies = << [NewEnemy(1, "ENEMY_SWORD", 60) EXCEPT !.state = "run"] >>
    /\ bullets = <<>> /\ decoy = TRUE
    /\ stylePoints = 0 /\ lastSkillUsed = "null" /\ attackStale = FALSE
    /\ keys = {"KeyJ"} /\ processedKeys = {"KeyJ"} /\ jHeldLong = TRUE
    /\ hitStop = 0 /\ clashProgress = CLASH_START_PROGRESS
    /\ clashTimer = CLASH_START_TIMER /\ clashTargetId = 0 /\ clashCooldown = 0
    /\ spawnTimer = 19 /\ enemySpawnCountInCycle = 1 /\ bossIndicesInCycle = {4, 11}
    /\ obs = [resolutions |-> 0, cooled |-> 60, wait |-> 0, taps |-> 0, pressed |-> FALSE, release |-> "long", grounded |-> TRUE, hits |-> 0, struckIn |-> {}, offenceIn |-> {}, parries |-> 0, parryFrom |-> 0, penalty |-> NoPenalty, lastSpawn |-> SpawnSeen(1, {4, 11})]
    /\ ticks = MaxTicksDodge - MaxTicksDecoy

InitDodge == InitFresh \/ InitSpent
NextDodge == Update(ScDodge) \/ KeyDown(ScDodge) \/ KeyUp(ScDodge)
SpecDodge == InitDodge /\ [][NextDodge]_vars

\* ------------------------------------------------------------ air scenario
\* a session before its first spawn in which the player jumps and attacks, on
\* the ground or off it as the tick finds it
MaxTicksAir == 5
ScAir ==
    [ScClash EXCEPT !.keys = {"KeyJ", "KeyS", "KeyW"}, !.alts = {0, 10},
                    !.dists = {DistFar}, !.maxTicks = MaxTicksAir]
NextAir == Update(ScAir) \/ KeyDown(ScAir) \/ KeyUp(ScAir)
SpecAir == InitFresh /\ [][NextAir]_vars

\* ---------------------------------------------------- timed state scenario
\* a session before its first spawn, or one whose first enemy, a lancer that
\* holds the player at the point of its lance, is one tick from the end of its
\* windup: the player attacks on the ground or off it and dodges. The loop is driven by
\* requestAnimationFrame, which calls update() again for as long as the game
\* is mounted.
MaxTicksTimed == 38
ScTimed ==
    [ScClash EXCEPT !.keys = {"KeyJ", "KeyL"}, !.alts = {0, 10},
                    !.dists = {DistLance}, !.maxTicks = MaxTicksTimed]
InitTimed ==
    /\ InitSession
    /\ bossIndicesInCycle = {4, 11}
    /\ enemies \in {<<>>, << [NewEnemy(1, "ENEMY_LANCER", -1) EXCEPT !.windup = 1 * TS] >>}
\* a key let go within 300 ms of its press
TapUp(sc) == KeyUp(sc) /\ obs'.release # "long"
NextTimed == Update(ScTimed) \/ KeyDown(ScTimed) \/ TapUp(ScTimed)
SpecTimed == InitTimed /\ [][NextTimed]_vars
\* the steps of Update(sc) among the steps of the scenario are those that
\* count a tick or a frozen frame, and Update(sc) can take one whenever the
\* mode is live and the run has ticks left: the browser calls update() again
\* after every frame
Ticking(sc) ==
    /\ gameState \in {"PLAYING", "CLASHING"}
    /\ pending = NoRequest \/ staleTicks < MaxStaleTicks
    /\ IF hitStop > 0
       THEN hitStop' = hitStop - 1 /\ ticks' = ticks
       ELSE ticks < sc.maxTicks /\ ticks' = ticks + 1 /\ hitStop' \in 0..40
SpecTimedFair == SpecTimed /\ WF_<<ticks, hitStop>>(Ticking(ScTimed))

\* ---------------------------------------------------------- melee scenario
\* a session with a lancer and a gunner one tick from the end of their windup
\* and a swordsman one or five ticks from the end of its own, each at the
\* point of the lance or next to the player as the tick finds it; the
\* gunner's bullet is at the player from the tick after the shot; the player
\* attacks and dodges
MaxTicksMelee == 8
ScMelee ==
    [ScClash EXCEPT !.keys = {"KeyJ", "KeyL"}, !.dists = {DistLance, DistNear},
                    !.bulletDists = {BulletAt}, !.maxTicks = MaxTicksMelee]
InitMelee ==
    /\ InitSession
    /\ bossIndicesInCycle = {4, 11}
    /\ \E n \in {1, 5} :
          enemies = << [NewEnemy(1, "ENEMY_LANCER", -1) EXCEPT !.windup = 1 * TS],
                       [NewEnemy(2, "ENEMY_SWORD", -1) EXCEPT !.windup = n * TS],
                       [NewEnemy(3, "ENEMY_GUN", -1) EXCEPT !.windup = 1 * TS] >>
NextMelee == Update(ScMelee) \/ KeyDown(ScMelee) \/ TapUp(ScMelee) \/ HostRender
SpecMelee == InitMelee /\ [][NextMelee]_vars

\* ------------------------------------------------------ clash win scenario
\* the first clash of a session 140 ticks in, three taps from a win, with the
\* meter a first hit above each rank's threshold or at the cap
MaxTicksClashWin == 8
ScClashWin == [ScClash EXCEPT !.maxTicks = MaxTicksClashWin]
WinScores ==
    {Threshold(i) + (625 * SS) \div 10 : i \in 0..TOP_RANK} \cup {STYLE_CAP * SS}
InitClashWin ==
    /\ \E s \in WinScores : ClashAt(140, s)
    /\ staleTicks = 0 /\ ticks = 0
NextClashWin ==
    Update(ScClashWin) \/ KeyDown(ScClashWin) \/ KeyUp(ScClashWin) \/ HostRender
SpecClashWin == InitClashWin /\ [][NextClashWin]_vars

\* =============================================================== properties
\* C1: the style score stays within [0, 45000] in every reachable state, at
\* every rank up to and including GOD.
StyleWithinRange == stylePoints >= 0 /\ stylePoints <= STYLE_CAP * SS

\* C4: every clash is resolved exactly once: between one entry into CLASHING
\* and the next, the win branch or the loss branch runs at most one time, also
\* when update() runs again before the host renders the requested mode.
ClashResolvedOnce == obs.resolutions <= 1

\* C5: while a clash is unresolved its progress is below CLASH_WIN_THRESHOLD at
\* the end of every tick, and the tick whose tap brings progress to the
\* threshold or past it declares the win (requests PLAYING, sets the 40-tick
\* hit-stop) in that same tick.
ProgressBelowThresholdUntilWin ==
    /\ [](gameState = "CLASHING" /\ obs.resolutions = 0
            => clashProgress < CLASH_WIN_THRESHOLD)
    /\ [][gameState = "CLASHING" /\ clashProgress < CLASH_WIN_THRESHOLD
            /\ clashProgress' >= CLASH_WIN_THRESHOLD
          => /\ obs'.resolutions = obs.resolutions + 1
             /\ pending' = "PLAYING"
             /\ hitStop' = 40]_vars

\* a clash won by a tap: progress at or past the threshold, the win declared
WinDeclaredByTap ==
    /\ gameState = "CLASHING" /\ pending = "PLAYING"
    /\ clashProgress >= CLASH_WIN_THRESHOLD
    /\ obs.resolutions = 1 /\ hitStop = 40

\* C6: the tick that triggers a clash leaves progress at 40, the countdown at
\* 300 ticks and the target set to an enemy that is attacking, on the first
\* and on every later clash of a session.
ClashStartsFresh ==
    [][pending # "CLASHING" /\ pending' = "CLASHING"
       => /\ clashProgress' = CLASH_START_PROGRESS
          /\ clashTimer' = CLASH_START_TIMER
          /\ \E i \in 1..Len(enemies') :
                /\ enemies'[i].id = clashTargetId'
                /\ IsEAttacking(enemies'[i])]_vars

\* C2: health never goes negative: the player's health and the health of every
\* listed enemy are at least 0 in every reachable state.
HealthNeverNegative ==
    /\ player.health >= 0
    /\ \A i \in 1..Len(enemies) : enemies[i].health >= 0

\* C3: an enemy whose health reaches zero or below leaves the list in the tick
\* in which that happens: no tick ends with an enemy of health <= 0 listed.
NoDeadEnemyListed == \A i \in 1..Len(enemies) : enemies[i].health > 0

\* C7: a reflected bullet strikes each enemy at most once in its lifetime: the
\* strikes it has dealt name no enemy twice.
NoDuplicates(seq) == \A i, j \in 1..Len(seq) : i # j => seq[i] # seq[j]
ReflectedBulletHitsOnce == \A k \in 1..Len(bullets) : NoDuplicates(bullets[k].hits)

\* a reflected bullet that struck two enemies and is still in flight past one
\* of them
BulletStruckTwo ==
    \E k \in 1..Len(bullets) :
        /\ bullets[k].isReflected /\ Len(bullets[k].hits) >= 2
        /\ \E i \in 1..Len(enemies) : InHitList(bullets[k], enemies[i].id)

\* C8: while the hit-stop counter is positive a tick of update() lowers the
\* counter by one and changes nothing else: player, enemies, bullets, style,
\* clash progress, timer, target and cooldown, the processed keys and the spawner
\* stay as they were, in PLAYING and in CLASHING.
HitStopFreezesTick ==
    [][hitStop > 0 /\ Update(ScClash)
       => /\ hitStop' = hitStop - 1
          /\ UNCHANGED <<gameState, pending, player, prevHealth, enemies, bullets, decoy,
                         stylePoints, lastSkillUsed, attackStale, keys, processedKeys,
                         clashProgress, clashTimer, clashTargetId, clashCooldown,
                         spawnTimer, enemySpawnCountInCycle, bossIndicesInCycle>>]_vars

\* a frozen tick has run after a won clash, the clash cooldown still at 45
FrozenAfterWin == hitStop = 39 /\ clashCooldown = 45 /\ gameState = "CLASHING"

\* C9: the enemy list never holds more than 6 enemies, bosses included.
EnemiesAtMostSix == Len(enemies) <= ENEMY_CAP

\* C10: in a cycle with boss slots {a, b} the counted spawn number n adds one
\* regular enemy, and one boss besides exactly when n is a or b; the 15th spawn
\* closes a cycle that added two bosses and resets the counter, and before it
\* the counter and the slots stay as the spawns left them.
SpawnCycleKeepsSlots ==
    LET l == obs.lastSpawn
    IN  l.n # 0 =>
          /\ l.n \in 1..CYCLE_LENGTH
          /\ l.regulars = 1
          /\ l.bosses = (IF l.n \in l.slots THEN 1 ELSE 0)
          /\ l.n = CYCLE_LENGTH => l.inCycle = 2 /\ enemySpawnCountInCycle = 0
          /\ l.n < CYCLE_LENGTH =>
                enemySpawnCountInCycle = l.n /\ bossIndicesInCycle = l.slots

\* the 15th spawn of a cycle has run, has added a boss of its own, and the
\* counter is back at 0
CycleClosedOnBossSlot ==
    /\ ticks > 0 /\ obs.lastSpawn.n = CYCLE_LENGTH /\ obs.lastSpawn.bosses = 1
    /\ obs.lastSpawn.inCycle = 2 /\ enemySpawnCountInCycle = 0

\* C11: whenever a session is being played (PLAYING or CLASHING), started
\* from the menu or restarted after GAME_OVER, the boss slots are exactly two
\* distinct indices in 1..15.
TwoBossSlotsInPlay ==
    gameState \in {"PLAYING", "CLASHING"}
        => /\ Cardinality(bossIndicesInCycle) = 2
           /\ bossIndicesInCycle \subseteq 1..CYCLE_LENGTH

\* C12: the rank lookup is monotone: of two scores in [0, 45000] the higher
\* never has the lower rank index, and score 0 has index 0 (rank D).
RankLookupMonotone ==
    /\ obs.score <= stylePoints => obs.index <= RankIndex(stylePoints)
    /\ obs.score >= stylePoints => obs.index >= RankIndex(stylePoints)
    /\ stylePoints = 0 => RankIndex(stylePoints) = 0

\* a score one twelfth under the S threshold followed by the threshold itself
RankStepsAtThreshold ==
    /\ obs.score = Threshold(4) - 1 /\ obs.index = 3
    /\ stylePoints = Threshold(4) /\ RankIndex(stylePoints) = 4

\* amount x m x 0.1 for the call obs describes, in twelfths
StatedGain ==
    (obs.amount * SS
        * (IF obs.skill = obs.lastSkill THEN 10 ELSE 25)
        * (IF obs.inAir THEN 2 ELSE 1) * (IF obs.focus THEN 2 ELSE 1)) \div 100

\* C13 as stated: every addStyle call leaves the score at the score before
\* plus amount x m x 0.1, capped at 45000, and records the skill.
StyleRaisedByStatedGain ==
    obs.calls > 0
        => /\ stylePoints = Min(STYLE_CAP * SS, obs.before + StatedGain)
           /\ lastSkillUsed = obs.skill

\* C13: an addStyle call for a skill other than 'parry' leaves the score at
\* the score before plus amount x m x 0.1, capped at 45000; for 'parry' the
\* gain is added to the larger of the score before and the next rank's
\* threshold; either way the skill is recorded as the last one used.
StyleRaisedByGainAfterParryFloor ==
    obs.calls > 0
        => LET base == IF obs.skill = "parry"
                       THEN Max(obs.before,
                                Threshold(Min(RankIndex(obs.before) + 1, TOP_RANK)))
                       ELSE obs.before
           IN  /\ stylePoints = Min(STYLE_CAP * SS, base + StatedGain)
               /\ lastSkillUsed = obs.skill

\* a first launcher hit in the air without focus at score 0: score 300, rank D
LauncherInAirFromZero ==
    /\ obs.calls = 1 /\ obs.before = 0 /\ obs.skill = "launcher"
    /\ obs.lastSkill # "launcher" /\ obs.inAir /\ ~obs.focus
    /\ stylePoints = 300 * SS /\ RankIndex(stylePoints) = 0

\* C14: a clash in which exactly three taps are registered before the
\* countdown or the drain ends it is won, at whatever ticks the taps fall: once
\* the third tap is registered the win has been declared.
ThreeTapsWin ==
    gameState = "CLASHING" /\ obs.taps = 3
        => /\ obs.resolutions = 1
           /\ pending = "PLAYING"
           /\ clashProgress >= CLASH_WIN_THRESHOLD

\* a step in which the win branch or the loss branch of a clash runs
WinRuns == obs'.resolutions = obs.resolutions + 1 /\ hitStop' = 40 /\ clashCooldown' = 45
LossRuns == obs'.resolutions = obs.resolutions + 1 /\ clashCooldown' = 60

ClashShiftsRankByTwo ==
    [][/\ WinRuns
            => RankIndex(stylePoints') >= Min(RankIndex(stylePoints) + 2, TOP_RANK)
       /\ LossRuns
            => /\ stylePoints' = Threshold(Max(RankIndex(stylePoints) - 2, 0))
               /\ RankIndex(stylePoints') = Max(RankIndex(stylePoints) - 2, 0)]_vars

\* a clash lost at rank OMG: the score is the threshold of rank SS
LossFromOmgLeavesSs ==
    /\ gameState = "CLASHING" /\ pending = "PLAYING" /\ obs.resolutions = 1
    /\ clashCooldown = 60 /\ stylePoints = Threshold(5)

\* C17: a tick of a clash runs the loss branch exactly when, after its drain
\* and its tap, progress is below the win threshold and progress <= 0 or the
\* countdown <= 0; the loss branch leaves health exactly 1, the player hurt
\* with a positive state timer, slow motion off and PLAYING requested (never
\* GAME_OVER).
ClashLostOnExpiry ==
    [][/\ gameState = "CLASHING" /\ clashTimer' = clashTimer - 1
            => (LossRuns <=> /\ clashProgress' < CLASH_WIN_THRESHOLD
                             /\ clashProgress' <= 0 \/ clashTimer' <= 0)
       /\ LossRuns
            => /\ player'.health = 1 * HS
               /\ player'.state = "hurt" /\ player'.stateTimer > 0
               /\ ~player'.isSlowMoActive
               /\ pending' = "PLAYING"]_vars

\* a clash lost on time with a tap registered: health 1, hurt, PLAYING requested
LostOnTimeAfterTap ==
    /\ gameState = "CLASHING" /\ pending = "PLAYING" /\ clashCooldown = 60
    /\ clashTimer <= 0 /\ clashProgress > 0 /\ obs.taps >= 1
    /\ player.health = 1 * HS /\ player.state = "hurt" /\ ~player.isSlowMoActive

\* C18: the cooldown a lost clash sets is shorter than the cooldown a won
\* clash sets: the tick that loses a clash leaves clashCooldown below the
\* value the win branch would have left.
LossCooldownShorterThanWin ==
    [][/\ obs'.resolutions = obs.resolutions + 1
       /\ player'.health = 1 * HS /\ player'.state = "hurt"
       => clashCooldown' < ClashWin(World, FALSE).clashCooldown]_vars

\* C19: GAME_OVER is signalled exactly when a PLAYING tick ends with the
\* player's health at or below 0: while the loop runs in PLAYING with health
\* <= 0 the GAME_OVER request is out, and a GAME_OVER request appears only in
\* a PLAYING tick that leaves health <= 0.
GameOverExactlyOnDeath ==
    /\ [](gameState = "PLAYING" /\ player.health <= 0 => pending = "GAME_OVER")
    /\ [][pending # "GAME_OVER" /\ pending' = "GAME_OVER"
            => /\ gameState = "PLAYING"
               /\ ticks' = ticks + 1
               /\ player'.health <= 0]_vars

\* the player brought to exactly 0 by a bullet, GAME_OVER requested
DeadAtZeroSignalled ==
    gameState = "PLAYING" /\ player.health = 0 /\ pending = "GAME_OVER"

\* C20: a parry raises the rank by at least one tier: the tick of a parry
\* ends with the score at or above the threshold of rank min(index at the
\* parry + 1, 8), and with a bullet in flight that is owned by the player and
\* marked reflected; no reflected bullet is owned by an enemy.
ParryRaisesRank ==
    [][obs'.parries > obs.parries
       => /\ stylePoints' >= Threshold(Min(RankIndex(obs'.parryFrom) + 1, TOP_RANK))
          /\ RankIndex(stylePoints') >= Min(RankIndex(obs'.parryFrom) + 1, TOP_RANK)
          /\ \E i \in 1..Len(bullets') :
                bullets'[i].owner = "player" /\ bullets'[i].isReflected
          /\ \A i \in 1..Len(bullets') :
                bullets'[i].isReflected => bullets'[i].owner = "player"]_vars

\* a bullet parried at score 0: rank C reached, the bullet now the player's
ParriedFromRankD ==
    /\ obs.parries = 1 /\ obs.parryFrom = 0 /\ lastSkillUsed = "parry"
    /\ stylePoints = Threshold(1) + (500 * 25 * SS) \div 100
    /\ \E i \in 1..Len(bullets) : bullets[i].owner = "player" /\ bullets[i].isReflected

\* C21: a PLAYING tick that follows damage to the player (an enemy's melee hit
\* or a bullet) applies the damage penalty: the score is lowered by 70% of the
\* width of the rank band the tick began in, floored at 0; also when a kill
\* healed the player in the tick of the damage.
PenaltyFollowsDamage ==
    [][gameState = "PLAYING" /\ ticks' = ticks + 1 /\ obs.penalty.owed
       => LET idx  == RankIndex(stylePoints)
              band == IF idx < TOP_RANK THEN Threshold(idx + 1) - Threshold(idx) ELSE 0
          IN  /\ obs'.penalty.count = obs.penalty.count + 1
              /\ obs'.penalty.to = Max(0, obs'.penalty.from - (band * 7) \div 10)]_vars

\* C22: focus consumes the meter: a PLAYING tick that is not frozen and that
\* begins and ends with focus active leaves slowMoEnergy strictly lower than
\* it found it.
FocusDrainsMeter ==
    [][/\ gameState = "PLAYING" /\ ticks' = ticks + 1
       /\ player.isSlowMoActive /\ player'.isSlowMoActive
       => player'.slowMoEnergy < player.slowMoEnergy]_vars

\* C23: while the mode is START, GUIDE or GAME_OVER no step that stays in the
\* mode (a tick, a key press, a key release) changes the player, the decoy, the
\* enemies, the projectiles or the meters
HaltedModeFreezesSimulation ==
    [][/\ gameState' = gameState
       /\ gameState \in {"START", "GUIDE", "GAME_OVER"}
       => UNCHANGED <<player, decoy, enemies, bullets, stylePoints, clashProgress,
                      clashTimer, clashCooldown, hitStop>>]_vars

\* C24: a tick that requests a clash ends with the clash cooldown at 0 and the
\* player not in spin_attack, and at least 45 ticks (after a win) or 60 ticks
\* (after a loss) have run since the last clash was resolved
ClashWaitsForCooldown ==
    [][pending' = "CLASHING" /\ pending # "CLASHING"
       => /\ clashCooldown' <= 0
          /\ player'.state # "spin_attack"
          /\ obs'.cooled >= obs'.wait]_vars

SecondClashAfterLoss ==
    /\ gameState = "PLAYING" /\ pending = "CLASHING"
    /\ obs.wait = 60 /\ obs.cooled = 60 /\ clashTargetId = 2

\* C25: a tick that triggers a clash (it sets the clash target) deals no melee
\* damage from the trigger on: the target and the enemies behind it in the
\* list end the tick with the health they began it with, and the tick does not
\* request GAME_OVER.
ClashTriggerSkipsDamage ==
    [][/\ gameState = "PLAYING" /\ ticks' = ticks + 1
       /\ clashTargetId' # clashTargetId
       => /\ pending' # "GAME_OVER"
          /\ \A i, j \in 1..Len(enemies') :
                enemies'[i].id = clashTargetId' /\ j >= i
                => \E k \in 1..Len(enemies) :
                      /\ enemies[k].id = enemies'[j].id
                      /\ enemies[k].health = enemies'[j].health]_vars

\* C26: a CLASHING tick whose target id matches no enemy leaves the clash
\* progress, the countdown, the score, the player's health and the requested
\* mode as they were.
LostTargetTickIsNoOp ==
    [][/\ gameState = "CLASHING" /\ ticks' = ticks + 1
       /\ clashTargetId \notin EnemyIds(enemies)
       => /\ clashProgress' = clashProgress /\ clashTimer' = clashTimer
          /\ stylePoints' = stylePoints /\ player'.health = player.health
          /\ pending' = pending]_vars

\* C27: every new press of the attack key during a clash gains
\* CLASH_GAIN_PER_TAP: a CLASHING tick that finds the key down from a press
\* made since the tick before it counts a tap.
EveryClashPressGains ==
    [][/\ gameState = "CLASHING" /\ ticks' = ticks + 1
       /\ obs.pressed /\ "KeyJ" \in keys
       => obs'.taps = obs.taps + 1]_vars

\* C28: a PLAYING tick that finds the player in spin_attack with the attack
\* key down, and that neither empties the meter nor hurts the player, leaves
\* the player in spin_attack.
SpinLastsWhileHeld ==
    [][/\ gameState = "PLAYING" /\ ticks' = ticks + 1
       /\ player.state = "spin_attack" /\ "KeyJ" \in keys
       /\ player'.slowMoEnergy > 0 /\ player'.state # "hurt"
       => player'.state = "spin_attack"]_vars

\* C29 as stated: a release of the dodge key held under 300 ms dodges when the
\* cooldown is over and the player is not hurt, and does nothing while the
\* cooldown runs; a release after 300 ms or more with the meter above 30
\* leaves a decoy out and the player as it was.
DodgeKeyReleased == "KeyL" \in keys /\ "KeyL" \notin keys'
ShortReleaseDodges ==
    /\ obs'.release = "short" /\ player.dodgeCooldown <= 0 /\ player.state # "hurt"
       => /\ player'.state = "dodge" /\ player'.stateTimer = 16 * TS
          /\ player'.dodgeCooldown = 35 * TS /\ decoy' = decoy
    /\ obs'.release = "short" /\ player.dodgeCooldown > 0
       => player' = player /\ decoy' = decoy
LongReleaseLeavesDecoy ==
    [][DodgeKeyReleased
       => /\ ShortReleaseDodges
          /\ obs'.release = "long" /\ player.slowMoEnergy > 30 * ES
             => decoy' /\ player' = player]_vars

\* C29, amended: the decoy also needs the dodge cooldown to be over.
LongReleaseLeavesDecoyAfterCooldown ==
    [][DodgeKeyReleased
       => /\ ShortReleaseDodges
          /\ obs'.release = "long" /\ player.slowMoEnergy > 30 * ES
             /\ player.dodgeCooldown <= 0
             => decoy' /\ player' = player]_vars

DecoyOutAfterLongRelease ==
    /\ decoy /\ obs.release = "long" /\ "KeyL" \notin keys
    /\ player.state # "dodge" /\ player.dodgeCooldown <= 0

\* C30: a tick that is not frozen and finds a decoy out does not raise the
\* meter, and if the decoy is still out when the tick ends the meter is lower
\* than the tick found it and is not empty.
DecoyGoesWithTheMeter ==
    [][decoy /\ ticks' = ticks + 1
       => /\ player'.slowMoEnergy <= player.slowMoEnergy
          /\ decoy' => /\ player'.slowMoEnergy < player.slowMoEnergy
                       /\ player'.slowMoEnergy > 0]_vars

\* C31 as stated: an attack press accepted by a tick that finds the player off
\* the ground starts a downward_strike when KeyS is down or the air-combo
\* counter is at 3 or more, and else an air_attack that raises the counter by
\* one; the counter stays in 0..3 and is 0 after a tick that found the player
\* on the ground.
AttackAccepted ==
    /\ gameState = "PLAYING" /\ ticks' = ticks + 1
    /\ "KeyJ" \in keys /\ "KeyJ" \notin processedKeys
    /\ player.state \notin {"hurt", "dodge"}
AirMoveChosen ==
    IF "KeyS" \in keys \/ player.airComboCount >= 3
    THEN player'.state = "downward_strike"
    ELSE /\ player'.state = "air_attack"
         /\ player'.airComboCount = player.airComboCount + 1
AirComboBounded ==
    /\ player.airComboCount \in 0..3
    /\ obs.grounded => player.airComboCount = 0
AirPressDispatch ==
    /\ []AirComboBounded
    /\ [][AttackAccepted /\ ~obs'.grounded => AirMoveChosen]_vars

\* C31, amended: with KeyW down the press starts a launcher, in the air as on
\* the ground; the rest holds when KeyW is up.
AirPressDispatchBelowLauncher ==
    /\ []AirComboBounded
    /\ [][AttackAccepted /\ ~obs'.grounded
          => IF "KeyW" \in keys
             THEN /\ player'.state = "launcher"
                  /\ player'.airComboCount = player.airComboCount
             ELSE AirMoveChosen]_vars

SlamAfterThreeAirAttacks ==
    /\ player.state = "downward_strike" /\ player.airComboCount = 3
    /\ "KeyS" \notin keys /\ ~obs.grounded

\* the timer a timed state is entered with, and the ticks after which it has
\* run out (a hit in the tick in which hurt runs out renews it once while the
\* lancer's blow lasts)
EntryTimer(s) ==
    IF s = "attack" THEN ATTACK_DURATION * TS
    ELSE IF s = "air_attack" THEN 22 * TS
    ELSE IF s = "dodge" THEN 16 * TS ELSE 18 * TS
StateBudget(s) == IF s = "hurt" THEN 36 ELSE EntryTimer(s) \div TS
TimedStatesSeen == {"hurt", "dodge", "attack", "air_attack"}

TimerRanOut ==
    /\ gameState = "PLAYING" /\ ticks' = ticks + 1
    /\ player.stateTimer > 0 /\ player'.stateTimer <= 0
HurtOrDodgeIsTimed == player.state \in {"hurt", "dodge"} => player.stateTimer > 0
StartedAnew == player.stateTimer = EntryTimer(player.state) - TS

OneHitPerTickNoneInDodgeOrHurt ==
    /\ obs.hits <= 1
    /\ obs.struckIn \cap {"hurt", "dodge"} = {}

\* the tick after the lancer's blow landed: the lancer's and the swordsman's
\* blows are on and the gunner's bullet is at the player, who is hurt and
\* loses no health
HurtPlayerPassedOver ==
    /\ obs.hits = 0 /\ player.state = "hurt" /\ player.stateTimer = 17 * TS
    /\ player.health = (PLAYER_MAX_HEALTH - 12) * HS
    /\ Len(enemies) = 3 /\ Len(bullets) = 1 /\ bullets[1].owner = "enemy"
    /\ \A i \in 1..2 : enemies[i].state = "attack" /\ enemies[i].stateTimer = 38 * TS

\* C34: at the rank the meter stands at, the kill of a boss heals more than
\* the kill of a regular enemy, and health never exceeds maxHealth.
BossKillHealsMore ==
    /\ HealPercent(TRUE, RankIndex(stylePoints)) > HealPercent(FALSE, RankIndex(stylePoints))
    /\ player.health <= PLAYER_MAX_HEALTH * HS

\* C35: the tick that wins a clash leaves the score at or above what it was.
ClashWinNeverLowersScore ==
    [][WinRuns /\ stylePoints <= STYLE_CAP * SS => stylePoints' >= stylePoints]_vars

\* C36: a PLAYING tick that calls addStyle not once (the meter is still stale
\* when it ends) leaves the score at or below what it was.
DecayAndPenaltyOnlyLower ==
    [][/\ gameState = "PLAYING" /\ ticks' = ticks + 1
       /\ attackStale'
       => stylePoints' <= stylePoints]_vars

\* C37: while the mode is CLASHING the clash target is one of the listed
\* enemies.
ClashTargetListed ==
    gameState = "CLASHING" => clashTargetId \in EnemyIds(enemies)

\* C38: whenever the player's blow lands, a bullet is parried or a clash is
\* triggered, the player's state at that moment is an attack state.
OffenceOnlyWhileAttacking == obs.offenceIn \subseteq AttackStates

\* C39: the countdown of a clash never stands above 300, every non-frozen
\* CLASHING tick takes one from it, and a tick that leaves it at or below 0
\* has declared the win or the loss: no clash lasts more than 300 such ticks.
ClashDeclaredWithinCountdown ==
    /\ [](clashTimer <= CLASH_START_TIMER)
    /\ [][gameState = "CLASHING" /\ ticks' = ticks + 1
          => /\ clashTimer' = clashTimer - 1
             /\ clashTimer' <= 0 => obs'.resolutions >= 1]_vars

\* a second clash that found the countdown of the first at 0 and was lost in
\* its first tick
SecondClashLostAtOnce ==
    /\ gameState = "CLASHING" /\ pending = "PLAYING"
    /\ clashTimer = -1 /\ obs.resolutions = 1 /\ clashCooldown = 60

\* C40: an enemy that is hurt, its hurt timer not to run out in the tick, is
\* not in its attack when the tick ends (the gunner fires in the tick in
\* which it enters its attack, and in no other).
HurtEnemyHoldsItsBlow ==
    [][/\ gameState = "PLAYING" /\ ticks' = ticks + 1
       => \A i \in 1..Len(enemies), j \in 1..Len(enemies') :
             /\ enemies[i].state = "hurt" /\ enemies[i].stateTimer > TS
             /\ enemies'[j].id = enemies[i].id
             => enemies'[j].state # "attack"]_vars

=============================================================================
